---------------------------- MODULE Spec2Model ----------------------------
(***************************************************************************)
(* Verification model of ferreiro's session subsystem                      *)
(* (crate ferreiro_adapters_session).                                      *)
(*                                                                         *)
(* Strings and byte slices are sequences of byte values (ASCII codes), so  *)
(* that base64, JSON text, the '.' separator and single-character changes  *)
(* of a token are modelled on the characters themselves.                   *)
(***************************************************************************)
EXTENDS Integers, Sequences, FiniteSets, TLC

(***************************************************************************)
(* base64::engine::general_purpose::STANDARD  (cookie.rs:3)                *)
(* Alphabet A-Z a-z 0-9 + /, '=' padding written on encode and required    *)
(* (canonical) on decode, non-zero trailing bits rejected.                 *)
(***************************************************************************)
PAD == 61

\* The alphabet of the URL_SAFE engine: '-' and '_' for 62 and 63.
B64CharUrlSafe(i) ==
    IF i < 26 THEN 65 + i
    ELSE IF i < 52 THEN 71 + i
    ELSE IF i < 62 THEN i - 4
    ELSE IF i = 62 THEN 45 ELSE 95

B64Char(i) ==
    IF i < 26 THEN 65 + i
    ELSE IF i < 52 THEN 71 + i
    ELSE IF i < 62 THEN i - 4
    ELSE IF i = 62 THEN 43 ELSE 47

B64Val(c) ==
    IF c >= 65 /\ c <= 90 THEN c - 65
    ELSE IF c >= 97 /\ c <= 122 THEN c - 71
    ELSE IF c >= 48 /\ c <= 57 THEN c + 4
    ELSE IF c = 43 THEN 62
    ELSE IF c = 47 THEN 63 ELSE -1

B64Encode(b) ==
    LET n == Len(b)
        At(i) == IF i <= n THEN b[i] ELSE 0
        Sym(g, k) ==
            LET b1 == At(3 * g + 1)
                b2 == At(3 * g + 2)
                b3 == At(3 * g + 3)
            IN  CASE k = 0 -> B64Char(b1 \div 4)
                  [] k = 1 -> B64Char((b1 % 4) * 16 + b2 \div 16)
                  [] k = 2 -> IF 3 * g + 2 > n THEN PAD
                              ELSE B64Char((b2 % 16) * 4 + b3 \div 64)
                  [] OTHER -> IF 3 * g + 3 > n THEN PAD
                              ELSE B64Char(b3 % 64)
    IN  [i \in 1..(4 * ((n + 2) \div 3)) |-> Sym((i - 1) \div 4, (i - 1) % 4)]

B64Decode(s) ==
    LET n == Len(s)
        npad == IF n >= 1 /\ s[n] = PAD
                THEN (IF n >= 2 /\ s[n - 1] = PAD THEN 2 ELSE 1)
                ELSE 0
        m == n - npad
        V(i) == B64Val(s[i])
        valid == /\ n % 4 = 0
                 /\ \A i \in 1..m : V(i) >= 0
                 /\ npad = 1 => V(m) % 4 = 0
                 /\ npad = 2 => V(m) % 16 = 0
        Byte(j) ==
            LET g == (j - 1) \div 3
                k == (j - 1) % 3
            IN  CASE k = 0 -> V(4 * g + 1) * 4 + V(4 * g + 2) \div 16
                  [] k = 1 -> (V(4 * g + 2) % 16) * 16 + V(4 * g + 3) \div 4
                  [] OTHER -> (V(4 * g + 3) % 4) * 64 + V(4 * g + 4)
    IN  IF valid
        THEN [ok |-> TRUE, bytes |-> [j \in 1..((n \div 4) * 3 - npad) |-> Byte(j)]]
        ELSE [ok |-> FALSE, bytes |-> <<>>]

(***************************************************************************)
(* serde_json::Value, restricted to scalars: the values a SessionData of   *)
(* the model holds.                                                        *)
(***************************************************************************)
VNull == [t |-> "Null"]
VBool(b) == [t |-> "Bool", b |-> b]
VNum(n) == [t |-> "Number", n |-> n]
VStr(s) == [t |-> "String", s |-> s]

(***************************************************************************)
(* serde_json::to_vec(&SessionData)  (cookie.rs:71-72, lib.rs:8-12)        *)
(* Compact JSON: {"data":{<entries>},"modified":<bool>}.  The entries are  *)
(* written in the HashMap's iteration order, the field `order` of an       *)
(* instance: std's HashMap seeds each instance's hasher separately, so the *)
(* order is a property of the instance, not of its key/value pairs.        *)
(***************************************************************************)
RECURSIVE DecDigits(_)
DecDigits(n) ==
    IF n < 10 THEN <<48 + n>> ELSE Append(DecDigits(n \div 10), 48 + (n % 10))

RECURSIVE EscapeStr(_)
EscapeStr(s) ==
    IF s = <<>> THEN <<>>
    ELSE LET c == Head(s)
         IN  (IF c = 34 \/ c = 92 THEN <<92, c>> ELSE <<c>>) \o EscapeStr(Tail(s))

SerString(s) == <<34>> \o EscapeStr(s) \o <<34>>

SerValue(v) ==
    CASE v.t = "Null" -> <<110, 117, 108, 108>>
      [] v.t = "Bool" -> IF v.b THEN <<116, 114, 117, 101>>
                         ELSE <<102, 97, 108, 115, 101>>
      [] v.t = "Number" -> DecDigits(v.n)
      [] OTHER -> SerString(v.s)

RECURSIVE SerEntries(_, _)
SerEntries(data, order) ==
    IF order = <<>> THEN <<>>
    ELSE LET k == Head(order)
         IN  SerString(k) \o <<58>> \o SerValue(data[k])
             \o (IF Len(order) > 1 THEN <<44>> ELSE <<>>)
             \o SerEntries(data, Tail(order))

\* A serializer that always writes "modified":false.
SerializeDropFlag(d) ==
    <<123, 34, 100, 97, 116, 97, 34, 58, 123>>
    \o SerEntries(d.data, d.order)
    \o <<125, 44, 34, 109, 111, 100, 105, 102, 105, 101, 100, 34, 58>>
    \o <<102, 97, 108, 115, 101>> \o <<125>>

Serialize(d) ==
    <<123, 34, 100, 97, 116, 97, 34, 58, 123>>
    \o SerEntries(d.data, d.order)
    \o <<125, 44, 34, 109, 111, 100, 105, 102, 105, 101, 100, 34, 58>>
    \o (IF d.modified THEN <<116, 114, 117, 101>> ELSE <<102, 97, 108, 115, 101>>)
    \o <<125>>

(***************************************************************************)
(* serde_json::from_slice::<SessionData>  (cookie.rs:60-61, lib.rs:8-12)   *)
(* A recursive-descent reader of the JSON text, as serde_json and the      *)
(* derived Deserialize behave: whitespace between tokens is skipped, the   *)
(* struct is read from an object (fields in any order, unknown fields      *)
(* skipped, a repeated or a missing field an error) or from a two-element  *)
(* array, a repeated map key keeps its last value, and anything but        *)
(* whitespace after the value is an error.  Values are the scalars of the  *)
(* model; string escapes other than \" \\ \/ \b \f \n \r \t, nested values *)
(* and non-integer numbers are outside the inputs the model draws.         *)
(* Every reader returns [ok, val, pos]: pos is the index after the value.  *)
(***************************************************************************)
ParseFail == [ok |-> FALSE, val |-> <<>>, pos |-> 0]

ParseOk(v, p) == [ok |-> TRUE, val |-> v, pos |-> p]

RECURSIVE SkipWs(_, _)
SkipWs(s, i) ==
    IF i <= Len(s) /\ s[i] \in {32, 9, 10, 13} THEN SkipWs(s, i + 1) ELSE i

HasLit(s, i, lit) ==
    /\ i + Len(lit) - 1 <= Len(s)
    /\ SubSeq(s, i, i + Len(lit) - 1) = lit

Unescape(c) ==
    CASE c = 34 -> 34
      [] c = 92 -> 92
      [] c = 47 -> 47
      [] c = 98 -> 8
      [] c = 102 -> 12
      [] c = 110 -> 10
      [] c = 114 -> 13
      [] c = 116 -> 9
      [] OTHER -> -1

\* The characters of a string literal from index i (after the opening quote).
RECURSIVE ScanStr(_, _, _)
ScanStr(s, i, acc) ==
    IF i > Len(s) THEN ParseFail
    ELSE IF s[i] = 34 THEN ParseOk(acc, i + 1)
    ELSE IF s[i] = 92
         THEN IF i + 1 <= Len(s) /\ Unescape(s[i + 1]) >= 0
              THEN ScanStr(s, i + 2, Append(acc, Unescape(s[i + 1])))
              ELSE ParseFail
    ELSE IF s[i] < 32 THEN ParseFail
    ELSE ScanStr(s, i + 1, Append(acc, s[i]))

RECURSIVE ScanDigits(_, _, _)
ScanDigits(s, i, acc) ==
    IF i <= Len(s) /\ s[i] >= 48 /\ s[i] <= 57
    THEN ScanDigits(s, i + 1, acc * 10 + (s[i] - 48))
    ELSE ParseOk(VNum(acc), i)

ParseNumber(s, i) ==
    IF s[i] = 48
    THEN IF i + 1 <= Len(s) /\ s[i + 1] >= 48 /\ s[i + 1] <= 57
         THEN ParseFail
         ELSE ParseOk(VNum(0), i + 1)
    ELSE ScanDigits(s, i, 0)

StrValue(r) == IF r.ok THEN ParseOk(VStr(r.val), r.pos) ELSE ParseFail

\* A value whose first character is at index i.
ParseValueAt(s, i) ==
    IF i > Len(s) THEN ParseFail
    ELSE IF s[i] = 110
         THEN IF HasLit(s, i, <<110, 117, 108, 108>>)
              THEN ParseOk(VNull, i + 4) ELSE ParseFail
    ELSE IF s[i] = 116
         THEN IF HasLit(s, i, <<116, 114, 117, 101>>)
              THEN ParseOk(VBool(TRUE), i + 4) ELSE ParseFail
    ELSE IF s[i] = 102
         THEN IF HasLit(s, i, <<102, 97, 108, 115, 101>>)
              THEN ParseOk(VBool(FALSE), i + 5) ELSE ParseFail
    ELSE IF s[i] = 34 THEN StrValue(ScanStr(s, i + 1, <<>>))
    ELSE IF s[i] >= 48 /\ s[i] <= 57 THEN ParseNumber(s, i)
    ELSE ParseFail

ParseValue(s, i0) == ParseValueAt(s, SkipWs(s, i0))

BoolValue(r) ==
    IF r.ok /\ r.val.t = "Bool" THEN ParseOk(r.val.b, r.pos) ELSE ParseFail

ParseBool(s, i0) == BoolValue(ParseValue(s, i0))

MapInsert(m, k, v) ==
    [x \in (DOMAIN m) \cup {k} |-> IF x = k THEN v ELSE m[x]]

\* The entries of a JSON object read into a HashMap<String, Value>, from the
\* position i0 of a key: the key (a string, read as k), the colon (at c),
\* the value (read as v), then a comma and the next entry or the closing
\* brace (at e).  A repeated key keeps its last value.
RECURSIVE ParseEntries(_, _, _)
EntryEnd(s, e, m) ==
    IF e > Len(s) THEN ParseFail
    ELSE IF s[e] = 44 THEN ParseEntries(s, e + 1, m)
    ELSE IF s[e] = 125 THEN ParseOk(m, e + 1)
    ELSE ParseFail

EntryNext(s, k, v, acc) ==
    IF ~v.ok THEN ParseFail
    ELSE EntryEnd(s, SkipWs(s, v.pos), MapInsert(acc, k.val, v.val))

EntryValue(s, k, c, acc) ==
    IF c > Len(s) \/ s[c] # 58 THEN ParseFail
    ELSE EntryNext(s, k, ParseValue(s, c + 1), acc)

EntryColon(s, k, acc) ==
    IF ~k.ok THEN ParseFail ELSE EntryValue(s, k, SkipWs(s, k.pos), acc)

EntryKey(s, j, acc) ==
    IF j > Len(s) \/ s[j] # 34 THEN ParseFail
    ELSE EntryColon(s, ScanStr(s, j + 1, <<>>), acc)

ParseEntries(s, i0, acc) == EntryKey(s, SkipWs(s, i0), acc)

\* An object whose opening brace is expected at index i.
ParseHashMapAt(s, i, j) ==
    IF i > Len(s) \/ s[i] # 123 THEN ParseFail
    ELSE IF j <= Len(s) /\ s[j] = 125 THEN ParseOk(<<>>, j + 1)
    ELSE ParseEntries(s, i + 1, <<>>)

ParseHashMapFrom(s, i) == ParseHashMapAt(s, i, SkipWs(s, i + 1))

ParseHashMap(s, i0) == ParseHashMapFrom(s, SkipWs(s, i0))

\* The fields of the struct read from an object, from the position i0 of a
\* key; acc holds the fields read so far.  A field met twice is an error,
\* before its value is read; a key that names no field has its value read
\* and dropped.
FieldName(key) ==
    IF key = <<100, 97, 116, 97>> THEN "data"
    ELSE IF key = <<109, 111, 100, 105, 102, 105, 101, 100>> THEN "modified"
    ELSE "ignored"

ReadField(s, f, i) ==
    CASE f = "data" -> ParseHashMap(s, i)
      [] f = "modified" -> ParseBool(s, i)
      [] OTHER -> ParseValue(s, i)

RECURSIVE ParseFields(_, _, _)
FieldEnd(s, e, m) ==
    IF e > Len(s) THEN ParseFail
    ELSE IF s[e] = 44 THEN ParseFields(s, e + 1, m)
    ELSE IF s[e] = 125 THEN ParseOk(m, e + 1)
    ELSE ParseFail

FieldNext(s, f, v, acc) ==
    IF ~v.ok THEN ParseFail
    ELSE FieldEnd(s, SkipWs(s, v.pos),
                  IF f = "ignored" THEN acc ELSE MapInsert(acc, f, v.val))

FieldValue(s, f, c, acc) ==
    IF c > Len(s) \/ s[c] # 58 THEN ParseFail
    ELSE IF f \in DOMAIN acc THEN ParseFail
    ELSE FieldNext(s, f, ReadField(s, f, c + 1), acc)

FieldColon(s, k, acc) ==
    IF ~k.ok THEN ParseFail
    ELSE FieldValue(s, FieldName(k.val), SkipWs(s, k.pos), acc)

FieldKey(s, j, acc) ==
    IF j > Len(s) \/ s[j] # 34 THEN ParseFail
    ELSE FieldColon(s, ScanStr(s, j + 1, <<>>), acc)

ParseFields(s, i0, acc) == FieldKey(s, SkipWs(s, i0), acc)

\* Both fields must have been read (neither has a default).
StructEnd(r) ==
    IF r.ok /\ DOMAIN r.val = {"data", "modified"} THEN r ELSE ParseFail

StructFields(s, i, j) ==
    IF j <= Len(s) /\ s[j] = 125 THEN ParseOk(<<>>, j + 1)
    ELSE ParseFields(s, i + 1, <<>>)

\* The struct written as an object whose brace is at index i.
ParseStructMap(s, i) == StructEnd(StructFields(s, i, SkipWs(s, i + 1)))

\* The struct written as an array [data, modified] whose bracket is at i.
SeqClose(s, d, b, e) ==
    IF e <= Len(s) /\ s[e] = 93
    THEN ParseOk([data |-> d.val, modified |-> b.val], e + 1)
    ELSE ParseFail

SeqSecond(s, d, b) ==
    IF ~b.ok THEN ParseFail ELSE SeqClose(s, d, b, SkipWs(s, b.pos))

SeqComma(s, d, c) ==
    IF c > Len(s) \/ s[c] # 44 THEN ParseFail
    ELSE SeqSecond(s, d, ParseBool(s, c + 1))

SeqFirst(s, d) ==
    IF ~d.ok THEN ParseFail ELSE SeqComma(s, d, SkipWs(s, d.pos))

ParseStructSeq(s, i) == SeqFirst(s, ParseHashMap(s, i + 1))

ParseStruct(s, i) ==
    IF i > Len(s) THEN ParseFail
    ELSE IF s[i] = 123 THEN ParseStructMap(s, i)
    ELSE IF s[i] = 91 THEN ParseStructSeq(s, i)
    ELSE ParseFail

\* Nothing but whitespace may follow the value.
DeserializeEnd(bytes, r) ==
    IF r.ok /\ SkipWs(bytes, r.pos) > Len(bytes)
    THEN [ok |-> TRUE, data |-> r.val.data, modified |-> r.val.modified]
    ELSE [ok |-> FALSE, data |-> <<>>, modified |-> FALSE]

\* [ok, data, modified]: the key/value pairs and the flag read from the bytes.
Deserialize(bytes) == DeserializeEnd(bytes, ParseStruct(bytes, SkipWs(bytes, 1)))

(***************************************************************************)
(* Hmac<Sha256>  (cookie.rs:4-7, used by sign at cookie.rs:26-32)          *)
(* The key is brought to the hash's block size by zero padding (RFC 2104;  *)
(* keys longer than a block, which are hashed first, are beyond the keys   *)
(* of the model).  SHA-256 itself is replaced by a checksum that keeps     *)
(* what the store relies on: the tag is a function of the padded key and   *)
(* the message, has DigestLen bytes, and changes with every change of one  *)
(* byte of the message (257 is a unit modulo the prime 8355961, and every  *)
(* intermediate value fits a 32-bit integer).  Collisions, which a real    *)
(* attacker cannot find either, do not occur among the inputs drawn here.  *)
(***************************************************************************)
BlockSize == 64

DigestLen == 32

HmacKey(key) == key \o [i \in 1..(BlockSize - Len(key)) |-> 0]

\* a * b modulo 8355961 for residues a and b, in 32-bit steps.
MulMod(a, b) ==
    LET hi == (a * (b \div 65536)) % 8355961
        mid == (((hi * 256) % 8355961) + ((a * ((b \div 256) % 256)) % 8355961)) % 8355961
    IN  (((mid * 256) % 8355961) + ((a * (b % 256)) % 8355961)) % 8355961

RECURSIVE PowMod(_)
PowMod(e) ==
    IF e = 0 THEN 1
    ELSE LET r == PowMod(e \div 2)
             sq == MulMod(r, r)
         IN  IF e % 2 = 0 THEN sq ELSE (sq * 257) % 8355961

\* 257^e modulo 8355961 for every length a hashed string can have.
PowTab == [e \in 0..255 |-> PowMod(e)]

RECURSIVE PolySum(_, _, _)
PolySum(s, a, b) ==
    IF a > b THEN 0
    ELSE IF a = b THEN (s[a] * PowTab[Len(s) - a]) % 8355961
    ELSE LET m == (a + b) \div 2
         IN  (PolySum(s, a, m) + PolySum(s, m + 1, b)) % 8355961

\* 257^n + sum of s[i] * 257^(n-i), modulo 8355961.
Checksum(s) == (PowTab[Len(s)] + PolySum(s, 1, Len(s))) % 8355961

HmacSha256(key, msg) ==
    LET h == Checksum(HmacKey(key) \o msg)
        Lane(k) == IF k = 0 THEN 1 ELSE IF k = 1 THEN 256 ELSE 65536
    IN  [i \in 1..DigestLen |-> (h \div Lane((i - 1) % 3)) % 256]

(***************************************************************************)
(* CookieSessionStore  (cookie.rs)                                         *)
(***************************************************************************)
DOT == 46

\* Option<&SessionId>::None
NoId == <<>>

\* A sign that keys the MAC with the empty key.
SignNoKey(secret_key, data) == B64Encode(HmacSha256(<<>>, data))

\* cookie.rs:26-32
Sign(secret_key, data) == B64Encode(HmacSha256(secret_key, data))

\* A verify that accepts every prefix of the expected signature.
VerifyPrefix(secret_key, data, signature) ==
    LET expected == Sign(secret_key, data)
    IN  /\ Len(signature) <= Len(expected)
        /\ SubSeq(expected, 1, Len(signature)) = signature

\* cookie.rs:34-37
Verify(secret_key, data, signature) == Sign(secret_key, data) = signature

\* str::split(sep).collect::<Vec<&str>>()  (cookie.rs:44)
RECURSIVE SplitAt(_, _, _)
SplitAt(s, from, seps) ==
    IF seps = {} THEN <<SubSeq(s, from, Len(s))>>
    ELSE LET p == CHOOSE q \in seps : \A r \in seps : q <= r
         IN  <<SubSeq(s, from, p - 1)>> \o SplitAt(s, p + 1, seps \ {p})

Split(s, sep) == SplitAt(s, 1, {i \in 1..Len(s) : s[i] = sep})

LoadErr(kind) == [kind |-> kind, data |-> <<>>, modified |-> FALSE]

\* cookie.rs:60-63: the deserialized SessionData, or the error of from_slice
LoadDeserialized(session_data) ==
    IF ~session_data.ok THEN LoadErr("Serialization")
    ELSE [kind |-> "Ok", data |-> session_data.data,
          modified |-> session_data.modified]

\* A load that reports undecodable base64 as Invalid.
LoadDecodedInvalid(data) ==
    IF ~data.ok THEN LoadErr("Invalid")
    ELSE LoadDeserialized(Deserialize(data.bytes))

\* cookie.rs:56-61: the decoded bytes deserialized, or the error of decode
LoadDecoded(data) ==
    IF ~data.ok THEN LoadErr("Serialization")
    ELSE LoadDeserialized(Deserialize(data.bytes))

\* A load that checks parts.len() < 2 and reads the first two parts.
LoadLenient(secret_key, id) ==
    LET parts == Split(id, DOT)
    IN  IF Len(parts) < 2 THEN LoadErr("Invalid")
        ELSE IF ~Verify(secret_key, parts[1], parts[2]) THEN LoadErr("Invalid")
        ELSE LoadDecoded(B64Decode(parts[1]))

\* cookie.rs:42-64.  kind "Ok" is Ok(Some(session_data)).
Load(secret_key, id) ==
    LET parts == Split(id, DOT)
    IN  IF Len(parts) # 2 THEN LoadErr("Invalid")
        ELSE LET data_b64 == parts[1]
                 signature == parts[2]
             IN  IF ~Verify(secret_key, data_b64, signature) THEN LoadErr("Invalid")
                 ELSE LoadDecoded(B64Decode(data_b64))

\* A save that returns the id it was given, as the in-memory store does.
SaveKeepsId(secret_key, id, data) ==
    IF id # NoId THEN id
    ELSE LET data_b64 == B64Encode(Serialize(data))
         IN  data_b64 \o <<DOT>> \o Sign(secret_key, data_b64)

\* A save that signs the serialized bytes instead of their base64 text.
SaveSignsJson(secret_key, id, data) ==
    LET json == Serialize(data)
    IN  B64Encode(json) \o <<DOT>> \o Sign(secret_key, json)

\* cookie.rs:66-76.  The id argument is not read; the call always returns Ok.
Save(secret_key, id, data) ==
    LET json == Serialize(data)
        data_b64 == B64Encode(json)
        signature == Sign(secret_key, data_b64)
    IN  data_b64 \o <<DOT>> \o signature

\* A delete that first checks the signature of the string it is given.
DeleteVerifies(secret_key, id) ==
    [kind |-> IF Load(secret_key, id).kind = "Invalid" THEN "Invalid" ELSE "Ok",
     removed |-> 0]

\* CookieSessionStore::delete -> Ok(())
Delete(secret_key, id) == [kind |-> "Ok", removed |-> 0]

\* CookieSessionStore::cleanup -> Ok(0)
Cleanup(secret_key) == [kind |-> "Ok", removed |-> 0]

(***************************************************************************)
(* The inputs of the model.                                                *)
(***************************************************************************)
\* Number of stores constructed; store s holds the key KeyList[s].
NumStores == 3

\* Number of distinct values a session entry can hold.
NumValues == 2

\* "k", "k\0", "s", "", "\0": secret keys (any byte string is a valid key).
KeyList == << <<107>>, <<107, 0>>, <<115>>, <<>>, <<0>> >>

Stores == 1..NumStores

\* 7, "?", true, null
ValueList == <<VNum(7), VStr(<<63>>), VBool(TRUE), VNull>>

Values == {ValueList[i] : i \in 1..NumValues}

\* "a", "b"
SessionKeys == {<<97>>, <<98>>}

Perms(S) ==
    {p \in [1..Cardinality(S) -> S] :
        \A i, j \in 1..Cardinality(S) : i # j => p[i] # p[j]}

\* HashMap<String, Value> contents
Maps == UNION {[D -> Values] : D \in SUBSET SessionKeys}

\* SessionData instances (lib.rs:8-12): the pairs, the flag, and the
\* iteration order of this instance's HashMap.
Instances ==
    UNION {{[data |-> m, order |-> o, modified |-> b] :
                o \in Perms(DOMAIN m), b \in BOOLEAN} : m \in Maps}

\* Some("x") and None: the id argument of save
SaveIds == {NoId, <<120>>}

SamePairs(d1, d2) == d1.data = d2.data /\ d1.modified = d2.modified

(***************************************************************************)
(* The methods of SessionData (lib.rs:14-41).                              *)
(***************************************************************************)
\* A value whose Serialize implementation returns an error, such as a map
\* with keys that are not strings.
Unserializable == [t |-> "Unserializable"]

\* serde_json::to_value(value) (lib.rs:26): Ok(v) or Err
ToValue(value) ==
    IF value.t = "Unserializable" THEN [ok |-> FALSE, v |-> VNull]
    ELSE [ok |-> TRUE, v |-> value]

\* The types T a caller asks get for.
GetTypes == {"i64", "String", "bool", "Value"}

\* Option<T>: Some(value) or None
None == [found |-> FALSE, value |-> VNull]

Some(value) == [found |-> TRUE, value |-> value]

\* A decoding that turns any value into the type asked for.
FromValueCoerces(v, T) == Some(v)

\* serde_json::from_value::<T>(v).ok() (lib.rs:22): a Value decodes as
\* itself; a number as i64, a string as String, a boolean as bool, and
\* nothing else does.
FromValue(v, T) ==
    IF \/ T = "Value"
       \/ T = "i64" /\ v.t = "Number"
       \/ T = "String" /\ v.t = "String"
       \/ T = "bool" /\ v.t = "Bool"
    THEN Some(v)
    ELSE None

\* SessionData::new (lib.rs:15-17): Default, an empty map and false.
New == [data |-> <<>>, order |-> <<>>, modified |-> FALSE]

\* SessionData::get::<T>(key) (lib.rs:19-23)
Get(self, key, T) ==
    IF key \notin DOMAIN self.data THEN None
    ELSE FromValue(self.data[key], T)

\* The iteration orders the map can have after insert(key, _): the order
\* it had when the key was there, any order of its keys when it was not.
InsertOrders(self, key) ==
    IF key \in DOMAIN self.data THEN {self.order}
    ELSE Perms((DOMAIN self.data) \cup {key})

\* A set that raises the flag although nothing was inserted.
SetAlwaysDirty(self, key, value, order) ==
    IF ToValue(value).ok
    THEN [data |-> MapInsert(self.data, key, ToValue(value).v),
          order |-> order, modified |-> TRUE]
    ELSE [self EXCEPT !.modified = TRUE]

\* SessionData::set(key, value) (lib.rs:25-30); order is the iteration
\* order of the map after the insert, one of InsertOrders(self, key).
Set(self, key, value, order) ==
    IF ToValue(value).ok
    THEN [data |-> MapInsert(self.data, key, ToValue(value).v),
          order |-> order, modified |-> TRUE]
    ELSE self

MapRemove(m, k) == [x \in (DOMAIN m) \ {k} |-> m[x]]

\* A remove whose flag tells whether a key was removed.
RemoveTracksChange(self, key) ==
    [data |-> MapRemove(self.data, key),
     order |-> SelectSeq(self.order, LAMBDA k : k # key),
     modified |-> key \in DOMAIN self.data]

\* SessionData::remove(key) (lib.rs:32-35)
Remove(self, key) ==
    [data |-> MapRemove(self.data, key),
     order |-> SelectSeq(self.order, LAMBDA k : k # key),
     modified |-> TRUE]

\* A clear that leaves the flag of an empty container as it was.
ClearKeepsFlag(self) ==
    [data |-> <<>>, order |-> <<>>,
     modified |-> self.modified \/ DOMAIN self.data # {}]

\* SessionData::clear (lib.rs:37-40)
Clear(self) == [data |-> <<>>, order |-> <<>>, modified |-> TRUE]

(***************************************************************************)
(* MemorySessionStore (memory.rs): a HashMap from session ids to           *)
(* SessionData behind a reader/writer lock.                                *)
(***************************************************************************)
\* Length of the random_bytes array of generate_id.
IdBytes == 32

\* A hex digit in upper case.
HexDigitUpper(n) == IF n < 10 THEN 48 + n ELSE 55 + n

\* hex::encode writes each nibble as one of 0-9 a-f.
HexDigit(n) == IF n < 10 THEN 48 + n ELSE 87 + n

HexEncode(bytes) ==
    [i \in 1..(2 * Len(bytes)) |->
        IF i % 2 = 1 THEN HexDigit(bytes[(i + 1) \div 2] \div 16)
        ELSE HexDigit(bytes[i \div 2] % 16)]

\* An id that does not depend on the bytes drawn.
GenerateIdFixed(random_bytes) == HexEncode([i \in 1..IdBytes |-> 0])

\* generate_id, given the bytes thread_rng() produced.
GenerateId(random_bytes) == HexEncode(random_bytes)

\* Number of distinct values the random generator produces here.
NumDraws == 2

\* The arrays the random generator can return: any 32 bytes, and nothing
\* keeps two draws from being equal.
Draws == {[i \in 1..IdBytes |-> (k + (37 * i)) % 256] : k \in 0..(NumDraws - 1)}

\* The HashMap as its set of entries.
HashMapHas(m, id) == \E e \in m : e.id = id

HashMapGet(m, id) == (CHOOSE e \in m : e.id = id).data

\* An insert that leaves the entry of the key in place.
HashMapInsertKeepsOld(m, id, d) == m \cup {[id |-> id, data |-> d]}

\* The pairs of d over those of old.
MergedData(old, d) ==
    [data |-> [k \in (DOMAIN old.data) \cup (DOMAIN d.data) |->
                  IF k \in DOMAIN d.data THEN d.data[k] ELSE old.data[k]],
     order |-> d.order \o SelectSeq(old.order, LAMBDA k : k \notin DOMAIN d.data),
     modified |-> d.modified]

\* An insert that merges the pairs of the new SessionData into the entry
\* of a key that is present.
HashMapInsertMerge(m, id, d) ==
    {e \in m : e.id # id}
        \cup {[id |-> id,
               data |-> IF HashMapHas(m, id) THEN MergedData(HashMapGet(m, id), d)
                        ELSE d]}

\* An insert that empties the map first.
HashMapInsertAlone(m, id, d) == {[id |-> id, data |-> d]}

\* HashMap::insert replaces the entry of a key that is present.
HashMapInsert(m, id, d) == {e \in m : e.id # id} \cup {[id |-> id, data |-> d]}

\* A remove that removes nothing.
HashMapRemoveNothing(m, id) == m

HashMapRemove(m, id) == {e \in m : e.id # id}

\* The reader/writer lock: the number of read guards alive and whether a
\* write guard is.
LockFree == [readers |-> 0, writer |-> FALSE]

CanRead(l) == ~l.writer

CanWrite(l) == ~l.writer /\ l.readers = 0

\* Number of tasks that call the store.
NumTasks == 2

\* Number of calls the tasks make in all.
MaxCalls == 3

Tasks == 1..NumTasks

\* The sessions stored: empty ones, with either value of the flag.
MemoryData == {d \in Instances : d.order = <<>>}

\* The ids callers hold: every id the store can generate, and "x".
MemoryIds == {GenerateId(r) : r \in Draws} \cup {<<120>>}

\* SessionData::default()
NoSession == [data |-> <<>>, order |-> <<>>, modified |-> FALSE]

\* Results: Ok(..) or Err(kind).  found and session are the Option of
\* load, id the SessionId of save, removed the count of cleanup, and at
\* the number of map mutations done when a load or a cleanup ran.
Outcome(kind) ==
    [kind |-> kind, found |-> FALSE, session |-> NoSession, id |-> NoId,
     removed |-> 0, at |-> 0]

NoCall == [backend |-> "none", op |-> "none", id |-> NoId, data |-> NoSession,
           session_id |-> NoId, draw |-> <<>>, locks |-> 0, store |-> 0]

\* A call of a method of SessionData: before is the instance the method
\* was called on, out what get returned, n the number of calls made.
NoMethod == [op |-> "none", key |-> <<>>, value |-> VNull, T |-> "none",
             before |-> NoSession, out |-> None, n |-> 0]

(***************************************************************************)
(* Post (ferreiro_domain: models/post.rs, values/text.rs, errors.rs).      *)
(***************************************************************************)
\* char::is_whitespace, for the characters of the model: space, tab, line
\* feed, carriage return.
IsWhitespace(c) == c \in {32, 9, 10, 13}

\* str::trim: the text without its leading and trailing whitespace.
RECURSIVE TrimStart(_)
TrimStart(s) ==
    IF s # <<>> /\ IsWhitespace(Head(s)) THEN TrimStart(Tail(s)) ELSE s

RECURSIVE TrimEnd(_)
TrimEnd(s) ==
    IF s # <<>> /\ IsWhitespace(s[Len(s)]) THEN TrimEnd(SubSeq(s, 1, Len(s) - 1))
    ELSE s

Trim(s) == TrimEnd(TrimStart(s))

\* The longest title, in bytes (text.rs:16).
MaxTitleLen == 200

\* Title::new (text.rs:9-24)
TitleNew(value) ==
    IF Trim(value) = <<>> THEN [ok |-> FALSE, err |-> "EmptyTitle", title |-> <<>>]
    ELSE IF Len(Trim(value)) > MaxTitleLen
         THEN [ok |-> FALSE, err |-> "TitleTooLong", title |-> <<>>]
         ELSE [ok |-> TRUE, err |-> "none", title |-> Trim(value)]

\* Body::new (text.rs:46-48): any text.
BodyNew(value) == value

\* Body::is_empty (text.rs:58-60)
BodyIsEmpty(body) == Trim(body) = <<>>

\* Option<DateTime<Utc>>
NoTime == [set |-> FALSE, at |-> 0]

SomeTime(t) == [set |-> TRUE, at |-> t]

\* No Post yet.
NoPost == [made |-> FALSE, title |-> <<>>, body |-> <<>>, status |-> "none",
           created_at |-> 0, published_at |-> NoTime]

\* Post::new (post.rs:26-37), the clock reading t
PostNew(title, body, t) ==
    [made |-> TRUE, title |-> title, body |-> body, status |-> "Draft",
     created_at |-> t, published_at |-> NoTime]

\* Result<(), DomainError> with the Post as the call left it
PostOk(self) == [kind |-> "Ok", post |-> self]

PostErr(kind, self) == [kind |-> kind, post |-> self]

\* A publish that leaves published_at as it was.
PublishKeepsTime(self, t) ==
    IF BodyIsEmpty(self.body) THEN PostErr("CannotPublishEmptyPost", self)
    ELSE IF self.status = "Published" THEN PostErr("AlreadyPublished", self)
         ELSE PostOk([self EXCEPT !.status = "Published"])

\* A publish that looks at the status first.
PublishStatusFirst(self, t) ==
    IF self.status = "Published" THEN PostErr("AlreadyPublished", self)
    ELSE IF BodyIsEmpty(self.body) THEN PostErr("CannotPublishEmptyPost", self)
         ELSE PostOk([self EXCEPT !.status = "Published",
                                  !.published_at = SomeTime(t)])

\* Post::publish (post.rs:63-73), the clock reading t
Publish(self, t) ==
    IF BodyIsEmpty(self.body) THEN PostErr("CannotPublishEmptyPost", self)
    ELSE IF self.status = "Published" THEN PostErr("AlreadyPublished", self)
         ELSE PostOk([self EXCEPT !.status = "Published",
                                  !.published_at = SomeTime(t)])

\* Post::archive (post.rs:75-77)
Archive(self) == [self EXCEPT !.status = "Archived"]

\* Post::update_content (post.rs:79-82)
UpdateContent(self, title, body) == [self EXCEPT !.title = title, !.body = body]

\* A call of a method of Post: before is the Post the method was called
\* on, kind what it returned.
NoPostCall == [op |-> "none", kind |-> "none", before |-> NoPost]

(***************************************************************************)
(* Slug (values/slug.rs), InMemoryPostRepository (in_memory/mod.rs) and    *)
(* PostServiceImpl::create (services/post_service.rs).                     *)
(***************************************************************************)
\* char::to_lowercase, for ASCII
ToLower(c) == IF c \in 65..90 THEN c + 32 ELSE c

\* value.trim().to_lowercase() (slug.rs:10)
Normalized(value) == [i \in 1..Len(Trim(value)) |-> ToLower(Trim(value)[i])]

\* c.is_ascii_alphanumeric() || c == '-' (slug.rs:25)
IsSlugChar(c) == c \in (48..57) \cup (65..90) \cup (97..122) \cup {45}

\* The longest slug, in bytes (slug.rs:16).
MaxSlugLen == 200

\* Slug::new (slug.rs:9-31)
SlugNew(value) ==
    IF Normalized(value) = <<>> THEN [ok |-> FALSE, err |-> "EmptySlug", slug |-> <<>>]
    ELSE IF Len(Normalized(value)) > MaxSlugLen
         THEN [ok |-> FALSE, err |-> "SlugTooLong", slug |-> <<>>]
         ELSE IF \E i \in 1..Len(Normalized(value)) : ~IsSlugChar(Normalized(value)[i])
              THEN [ok |-> FALSE, err |-> "InvalidSlugCharacters", slug |-> <<>>]
              ELSE [ok |-> TRUE, err |-> "none", slug |-> Normalized(value)]

\* An entry of HashMap<PostId, Post>: the key, and the Post with its slug.
PostEntry(id, slug, p) == [id |-> id, slug |-> slug, post |-> p]

\* InMemoryPostRepository::exists_by_slug (mod.rs:99-102)
ExistsBySlug(m, slug) == \E e \in m : e.slug = slug

\* InMemoryPostRepository::save (mod.rs:44-48): insert under the Post's id
RepoSave(m, e) == {x \in m : x.id # e.id} \cup {e}

\* Result<Post, ServiceError>, with the id of the Post
CreateOutcome(kind, id) == [kind |-> kind, id |-> id]

\* A task that has not called create: pc is its position (idle, checked
\* after exists_by_slug answered false, saved after the repository's
\* save, done), cmd its command, entry the Post it made.
NoCreate == [pc |-> "idle", cmd |-> [title |-> <<>>, slug |-> <<>>, body |-> <<>>],
             title |-> <<>>, slug |-> <<>>, entry |-> PostEntry(0, <<>>, NoPost),
             result |-> CreateOutcome("none", 0)]

(***************************************************************************)
(* State.  secret_key is the field of each CookieSessionStore; the rest    *)
(* is the caller: pc is its position (start, saved after a save call       *)
(* returned, loaded after a load call returned), saved the save call and   *)
(* the token it returned, presented the load call's arguments and how the  *)
(* presented string was made, loaded what load returned, resaved a second  *)
(* save call made instead of the load.  cmp is a run of the signature      *)
(* comparison of verify, byte by byte.  between is the latest of the calls *)
(* the caller made after its load, revoked tells that one of them was a    *)
(* delete of the string it had loaded, on the same store, and reloaded is  *)
(* what a second load of that string returned.  sessions and rwlock are    *)
(* the map and the lock of the MemorySessionStore; task is the position of *)
(* each calling task (idle, in a call before and under its lock, done      *)
(* when the call has returned), call its call, result what the call returned, history the        *)
(* mutations of the map in the order of their write locks, and started the *)
(* number of calls each task has begun.  bag is the SessionData a task     *)
(* holds, and last the latest method call made on it: the method, its      *)
(* arguments, the instance before the call, what the call returned, and    *)
(* the count n of calls made.  post is a Post of the domain, post_ret the  *)
(* latest call on it with the Post before the call and what the call       *)
(* returned, and now the reading of the clock.  posts is the map of the    *)
(* InMemoryPostRepository, create the position of each task in its call   *)
(* of PostService::create with what it holds, and events the events       *)
(* published.                                                              *)
(***************************************************************************)
VARIABLES secret_key, pc, saved, resaved, presented, loaded, cmp,
          between, revoked, reloaded,
          sessions, rwlock, task, call, result, history, started,
          bag, last, post, post_ret, now,
          posts, create, events

cookieVars == <<secret_key, pc, saved, resaved, presented, loaded>>

compareVars == <<cmp>>

repeatVars == <<between, revoked, reloaded>>

\* The MemorySessionStore and the tasks that call it (described below).
memoryVars == <<sessions, rwlock, task, call, result, history, started>>

\* The SessionData instances the tasks hold.
bagVars == <<bag, last>>

\* The Post and the clock.
postVars == <<post, post_ret, now>>

\* The repository, the calls of create and the events.
createVars == <<posts, create, events>>

\* What the calls on the cookie store leave alone.
outsideCookie == <<compareVars, repeatVars, memoryVars, bagVars, postVars, createVars>>

\* What the comparison leaves alone.
outsideCompare == <<cookieVars, repeatVars, memoryVars, bagVars, postVars, createVars>>

\* What the calls on the stores leave alone besides the caller's SessionData.
outsideStores == <<cookieVars, compareVars, repeatVars, postVars, createVars>>

\* What the tasks' calls on the stores leave alone: save borrows its
\* SessionData (data: &SessionData), load takes none.
outsideMemory == <<outsideStores, bagVars>>

\* What the methods of SessionData leave alone.
outsideBag == <<cookieVars, compareVars, repeatVars, memoryVars, postVars, createVars>>

\* What the methods of Post leave alone.
outsidePost == <<cookieVars, compareVars, repeatVars, memoryVars, bagVars, createVars>>

\* What the calls of create leave alone.
outsideCreate == <<cookieVars, compareVars, repeatVars, memoryVars, bagVars, postVars>>

vars == <<cookieVars, compareVars, repeatVars, memoryVars, bagVars, postVars, createVars>>

NoSave == [store |-> 0, id |-> NoId, data |-> [data |-> <<>>, order |-> <<>>, modified |-> FALSE],
           token |-> <<>>]

NoPresent == [how |-> "none", store |-> 0, input |-> <<>>, pos |-> 0]

NoResult == [kind |-> "none", session |-> [data |-> <<>>, order |-> <<>>, modified |-> FALSE]]

NoBetween == [op |-> "none", store |-> 0, input |-> <<>>, kind |-> "none",
              removed |-> 0, count |-> 0]

NoCompare == [phase |-> "idle", expected |-> <<>>, signature |-> <<>>, i |-> 0,
              steps |-> 0, equal |-> FALSE]

\* CookieSessionStore::new (cookie.rs:19-24), once per store
Init ==
    /\ secret_key = [s \in Stores |-> KeyList[s]]
    /\ pc = "start"
    /\ saved = NoSave
    /\ resaved = NoSave
    /\ presented = NoPresent
    /\ loaded = NoResult
    /\ cmp = NoCompare
    /\ between = NoBetween
    /\ revoked = FALSE
    /\ reloaded = NoResult
    /\ sessions = {}
    /\ rwlock = LockFree
    /\ task = [p \in Tasks |-> "idle"]
    /\ call = [p \in Tasks |-> NoCall]
    /\ result = [p \in Tasks |-> Outcome("none")]
    /\ history = <<>>
    /\ started = [p \in Tasks |-> 0]
    /\ bag = [p \in Tasks |-> NoSession]
    /\ last = [p \in Tasks |-> NoMethod]
    /\ post = NoPost
    /\ post_ret = NoPostCall
    /\ now = 0
    /\ posts = {}
    /\ create = [p \in Tasks |-> NoCreate]
    /\ events = <<>>

\* store.save(id, &data)
CookieSave(s, id, d) ==
    /\ pc = "start"
    /\ pc' = "saved"
    /\ saved' = [store |-> s, id |-> id, data |-> d,
                 token |-> Save(secret_key[s], id, d)]
    /\ UNCHANGED <<secret_key, resaved, presented, loaded, outsideCookie>>

\* A second store.save(id, &data), on any store.
CookieSaveAgain(s, id, d) ==
    /\ pc = "saved"
    /\ pc' = "resaved"
    /\ resaved' = [store |-> s, id |-> id, data |-> d,
                   token |-> Save(secret_key[s], id, d)]
    /\ UNCHANGED <<secret_key, saved, presented, loaded, outsideCookie>>

\* store.load(&input).  The SessionData of an Ok result lives in a HashMap
\* built by the deserializer, with an iteration order of its own.
Returned(s, how, input, pos, r) ==
    /\ pc' = "loaded"
    /\ presented' = [how |-> how, store |-> s, input |-> input, pos |-> pos]
    /\ \E o \in Perms(DOMAIN r.data) :
          loaded' = [kind |-> r.kind,
                     session |-> [data |-> r.data, order |-> o,
                                  modified |-> r.modified]]
    /\ UNCHANGED <<secret_key, saved, resaved, outsideCookie>>

CallLoad(s, how, input, pos) ==
    Returned(s, how, input, pos, Load(secret_key[s], input))

\* The token is presented, as it was issued, to any of the stores.
CookieLoadIssued(s) ==
    /\ pc = "saved"
    /\ CallLoad(s, "issued", saved.token, 0)

OtherChar(c) == IF c = 65 THEN 66 ELSE 65

\* One character of the token is changed, to another base64 character or
\* to a '.', and the token presented to the store that issued it.
CookieLoadChanged(i, c) ==
    /\ pc = "saved"
    /\ c # saved.token[i]
    /\ CallLoad(saved.store, "changed", [saved.token EXCEPT ![i] = c], i)

\* A proper prefix of the token is presented to the store that issued it.
CookieLoadTruncated(n) ==
    /\ pc = "saved"
    /\ CallLoad(saved.store, "truncated", SubSeq(saved.token, 1, n), n)

\* The token without its '.' characters is presented.
CookieLoadUnseparated ==
    /\ pc = "saved"
    /\ CallLoad(saved.store, "unseparated",
                SelectSeq(saved.token, LAMBDA c : c # DOT), 0)

\* The token followed by ".A" is presented.
CookieLoadExtended ==
    /\ pc = "saved"
    /\ CallLoad(saved.store, "extended", saved.token \o <<DOT, 65>>, 0)

\* Data parts no save call writes.  In order: the empty string, "!!!!" (no
\* base64), "e30" (base64 of {} without its padding), "e30=" (base64 of {}),
\* base64 of {"data":{},"modified":false}x, of [{},true], and of
\* {"modified":false,"data":{"a":7}} written with spaces.
ForeignData ==
    { <<>>,
      <<33, 33, 33, 33>>,
      <<101, 51, 48>>,
      <<101, 51, 48, 61>>,
      B64Encode(Serialize(NoSave.data) \o <<120>>),
      B64Encode(<<91, 123, 125, 44, 116, 114, 117, 101, 93>>),
      B64Encode(<<32, 123, 34, 109, 111, 100, 105, 102, 105, 101, 100, 34, 58, 102,
                  97, 108, 115, 101, 44, 32, 34, 100, 97, 116, 97, 34, 58, 123, 34,
                  97, 34, 58, 32, 55, 125, 125, 10>>) }

\* Strings that did not come from this run's save call: strings without a
\* '.', with several, with an empty part, and foreign data parts signed
\* with the key of one of the stores.
ForeignInputs ==
    { <<>>, <<65>>, <<DOT>>, <<DOT, DOT>>, <<65, DOT, 66, DOT, 67>>,
      <<65, DOT>>, <<DOT, 66>>, <<65, DOT, 66>> }
    \cup {dp \o <<DOT>> \o Sign(secret_key[k], dp) : dp \in ForeignData, k \in Stores}
    \cup {<<DOT>> \o Sign(secret_key[k], <<65>>) : k \in Stores}
    \cup {<<DOT>> \o Sign(secret_key[k], <<>>) \o <<DOT>> : k \in Stores}

CookieLoadForeign(s, input) ==
    /\ pc = "start"
    /\ CallLoad(s, "foreign", input, 0)

CookieNext ==
    \/ \E s \in Stores, id \in SaveIds, d \in Instances : CookieSave(s, id, d)
    \/ \E s \in Stores, id \in SaveIds, d \in Instances : CookieSaveAgain(s, id, d)
    \/ \E s \in Stores : CookieLoadIssued(s)
    \/ \E i \in 1..Len(saved.token) :
          \E c \in {OtherChar(saved.token[i]), DOT} : CookieLoadChanged(i, c)
    \/ \E n \in 0..(Len(saved.token) - 1) : CookieLoadTruncated(n)
    \/ CookieLoadUnseparated
    \/ CookieLoadExtended
    \/ /\ pc = "start"
       /\ \E s \in Stores, input \in ForeignInputs : CookieLoadForeign(s, input)

SpecCookie == Init /\ [][CookieNext]_vars

(***************************************************************************)
(* The comparison `expected == signature` of verify (cookie.rs:35-36),     *)
(* run byte by byte.  Equality of strings compares the lengths and then    *)
(* the bytes, and is free to stop at the first byte that differs: std      *)
(* makes no promise of constant time.  steps counts the bytes compared.    *)
(***************************************************************************)
\* The data parts whose signatures are compared.
CompareData == {B64Encode(Serialize(d)) : d \in {x \in Instances : x.order = <<>>}}

\* The signatures presented against an expected one: itself, each change of
\* one character, and its prefixes that lack the last or every character.
CompareSignatures(expected) ==
    {expected, SubSeq(expected, 1, Len(expected) - 1), <<>>}
    \cup {[expected EXCEPT ![i] = OtherChar(expected[i])] : i \in 1..Len(expected)}

CompareBegin(expected, signature) ==
    cmp' = [phase |-> IF Len(expected) = Len(signature) THEN "running" ELSE "done",
            expected |-> expected, signature |-> signature, i |-> 1,
            steps |-> 0, equal |-> FALSE]

CompareStart(s, data) ==
    /\ cmp.phase = "idle"
    /\ \E signature \in CompareSignatures(Sign(secret_key[s], data)) :
          CompareBegin(Sign(secret_key[s], data), signature)
    /\ UNCHANGED outsideCompare

CompareByteEqual ==
    /\ cmp.phase = "running"
    /\ cmp.i <= Len(cmp.expected)
    /\ cmp.expected[cmp.i] = cmp.signature[cmp.i]
    /\ cmp' = [cmp EXCEPT !.i = @ + 1, !.steps = @ + 1]
    /\ UNCHANGED outsideCompare

CompareByteDiffers ==
    /\ cmp.phase = "running"
    /\ cmp.i <= Len(cmp.expected)
    /\ cmp.expected[cmp.i] # cmp.signature[cmp.i]
    /\ cmp' = [cmp EXCEPT !.phase = "done", !.steps = @ + 1, !.equal = FALSE]
    /\ UNCHANGED outsideCompare

CompareEnd ==
    /\ cmp.phase = "running"
    /\ cmp.i > Len(cmp.expected)
    /\ cmp' = [cmp EXCEPT !.phase = "done", !.equal = TRUE]
    /\ UNCHANGED outsideCompare

CompareNext ==
    \/ \E s \in Stores, data \in CompareData : CompareStart(s, data)
    \/ CompareByteEqual
    \/ CompareByteDiffers
    \/ CompareEnd

SpecCompare == Init /\ [][CompareNext]_vars

(***************************************************************************)
(* Calls that follow a load on the cookie stores: any of delete, cleanup,  *)
(* save and load, on any store, and then the first load once more.         *)
(***************************************************************************)
\* Number of calls made between the two loads of one string.
MaxBetween == 2

\* The sessions saved here: an empty one and one with the entry "a": 7.
RepeatData ==
    {d \in Instances : \/ d.order = <<>> /\ ~d.modified
                       \/ /\ d.order = << <<97>> >>
                          /\ d.modified
                          /\ d.data[<<97>>] = ValueList[1]}

\* "" and "A.B"
RepeatForeign == {<<>>, <<65, DOT, 66>>}

\* The strings given to the calls between: the one loaded, the token of
\* the save call, and strings no save call returned.
RepeatInputs == {presented.input, saved.token} \cup RepeatForeign

\* The pairs and the flag of a SessionData, without its iteration order.
Plain(d) == [data |-> d.data, modified |-> d.modified]

RepeatReady ==
    /\ pc \in {"loaded", "between"}
    /\ between.count < MaxBetween

Noted(op, s, input, r) ==
    /\ pc' = "between"
    /\ between' = [op |-> op, store |-> s, input |-> input, kind |-> r.kind,
                   removed |-> r.removed, count |-> between.count + 1]

\* A delete that installs another key in the store.
CookieDeleteRotatesKey(s, input) ==
    /\ RepeatReady
    /\ Noted("delete", s, input, Delete(secret_key[s], input))
    /\ revoked' = (revoked \/ (s = presented.store /\ input = presented.input))
    /\ secret_key' = [secret_key EXCEPT ![s] = <<120>>]
    /\ UNCHANGED <<saved, resaved, presented, loaded, reloaded, compareVars, memoryVars, bagVars, postVars, createVars>>

\* store.delete(&input)
CookieDelete(s, input) ==
    /\ RepeatReady
    /\ Noted("delete", s, input, Delete(secret_key[s], input))
    /\ revoked' = (revoked \/ (s = presented.store /\ input = presented.input))
    /\ UNCHANGED <<secret_key, saved, resaved, presented, loaded, reloaded, compareVars,
                   memoryVars, bagVars, postVars, createVars>>

\* store.cleanup()
CookieCleanup(s) ==
    /\ RepeatReady
    /\ Noted("cleanup", s, <<>>, Cleanup(secret_key[s]))
    /\ UNCHANGED <<secret_key, saved, resaved, presented, loaded, revoked, reloaded,
                   compareVars, memoryVars, bagVars, postVars, createVars>>

\* store.save(id, &d) between the loads; its token goes back to the client.
CookieSaveBetween(s, id, d) ==
    /\ RepeatReady
    /\ Noted("save", s, Save(secret_key[s], id, d), [kind |-> "Ok", removed |-> 0])
    /\ UNCHANGED <<secret_key, saved, resaved, presented, loaded, revoked, reloaded,
                   compareVars, memoryVars, bagVars, postVars, createVars>>

\* store.load(&input) between the loads
CookieLoadBetween(s, input) ==
    /\ RepeatReady
    /\ Noted("load", s, input, [kind |-> Load(secret_key[s], input).kind, removed |-> 0])
    /\ UNCHANGED <<secret_key, saved, resaved, presented, loaded, revoked, reloaded,
                   compareVars, memoryVars, bagVars, postVars, createVars>>

\* The string of the first load is loaded again on the same store.
CookieLoadRepeat ==
    /\ pc = "between"
    /\ pc' = "reloaded"
    /\ \E o \in Perms(DOMAIN Load(secret_key[presented.store], presented.input).data) :
          reloaded' = [kind |-> Load(secret_key[presented.store], presented.input).kind,
                       session |->
                         [data |-> Load(secret_key[presented.store], presented.input).data,
                          order |-> o,
                          modified |->
                            Load(secret_key[presented.store], presented.input).modified]]
    /\ UNCHANGED <<secret_key, saved, resaved, presented, loaded, between, revoked,
                   compareVars, memoryVars, bagVars, postVars, createVars>>

RepeatNext ==
    \/ \E s \in Stores, id \in SaveIds, d \in RepeatData : CookieSave(s, id, d)
    \/ \E s \in Stores : CookieLoadIssued(s)
    \/ /\ pc = "start"
       /\ \E s \in Stores, input \in RepeatForeign : CookieLoadForeign(s, input)
    \/ /\ RepeatReady
       /\ \E s \in Stores, input \in RepeatInputs : CookieDelete(s, input)
    \/ \E s \in Stores : CookieCleanup(s)
    \/ /\ RepeatReady
       /\ \E s \in Stores, id \in SaveIds, d \in RepeatData : CookieSaveBetween(s, id, d)
    \/ /\ RepeatReady
       /\ \E s \in Stores, input \in RepeatInputs : CookieLoadBetween(s, input)
    \/ CookieLoadRepeat

SpecRepeat == Init /\ [][RepeatNext]_vars

(***************************************************************************)
(* Tasks calling one MemorySessionStore.  The methods hold no await, so a  *)
(* call runs from its lock to its return without suspending; tasks on      *)
(* different threads interleave at the lock operations.  The guard of a    *)
(* lock is dropped when the method returns.                                *)
(***************************************************************************)
Begin(p, c) ==
    /\ task[p] \in {"idle", "done"}
    /\ started[p] < MaxCalls
    /\ started' = [started EXCEPT ![p] = @ + 1]
    /\ call' = [call EXCEPT ![p] = c]

\* The call has not returned yet.
Pending(p) == result' = [result EXCEPT ![p] = Outcome("none")]

Goto(p, where) == task' = [task EXCEPT ![p] = where]

Locked(p) == call' = [call EXCEPT ![p].locks = @ + 1]

Mutation(p, had) ==
    [op |-> call[p].op, id |-> call[p].session_id, given |-> call[p].id,
     data |-> call[p].data, draw |-> call[p].draw, had |-> had]

\* store.load(&id) is called
MemLoadCall(p, id) ==
    /\ Begin(p, [NoCall EXCEPT !.backend = "memory", !.op = "load", !.id = id,
                               !.session_id = id])
    /\ Pending(p)
    /\ Goto(p, "load")
    /\ UNCHANGED <<sessions, rwlock, history, outsideMemory>>

\* let sessions = self.sessions.read().unwrap()
MemLoadRead(p) ==
    /\ task[p] = "load"
    /\ CanRead(rwlock)
    /\ rwlock' = [rwlock EXCEPT !.readers = @ + 1]
    /\ Locked(p)
    /\ Goto(p, "load_read")
    /\ UNCHANGED <<sessions, result, history, started, outsideMemory>>

\* A load that answers an absent id with the Expired error.
MemLoadResultExpired(m, id, at) ==
    IF HashMapHas(m, id)
    THEN [Outcome("Ok") EXCEPT !.found = TRUE, !.session = HashMapGet(m, id), !.at = at]
    ELSE [Outcome("Expired") EXCEPT !.at = at]

\* Ok(sessions.get(id).cloned())
MemLoadResult(m, id, at) ==
    IF HashMapHas(m, id)
    THEN [Outcome("Ok") EXCEPT !.found = TRUE, !.session = HashMapGet(m, id), !.at = at]
    ELSE [Outcome("Ok") EXCEPT !.at = at]

\* A load that returns with its read guard alive.
MemLoadReturnKeepsLock(p) ==
    /\ task[p] = "load_read"
    /\ result' = [result EXCEPT ![p] = MemLoadResult(sessions, call[p].id, Len(history))]
    /\ Goto(p, "done")
    /\ UNCHANGED <<sessions, rwlock, call, history, started, outsideMemory>>

MemLoadReturn(p) ==
    /\ task[p] = "load_read"
    /\ result' = [result EXCEPT ![p] = MemLoadResult(sessions, call[p].id, Len(history))]
    /\ rwlock' = [rwlock EXCEPT !.readers = @ - 1]
    /\ Goto(p, "done")
    /\ UNCHANGED <<sessions, call, history, started, outsideMemory>>

\* A save that stores under a generated id whatever id it was given.
MemSaveCallFreshId(p, id, d, random_bytes) ==
    /\ Begin(p, [NoCall EXCEPT !.backend = "memory", !.op = "save", !.id = id, !.data = d,
                               !.draw = random_bytes,
                               !.session_id = GenerateId(random_bytes)])
    /\ Pending(p)
    /\ Goto(p, "save")
    /\ UNCHANGED <<sessions, rwlock, history, outsideMemory>>

\* store.save(id, &data) is called:
\* let session_id = id.map(|s| s.to_string()).unwrap_or_else(Self::generate_id)
MemSaveCall(p, id, d, random_bytes) ==
    /\ Begin(p, [NoCall EXCEPT !.backend = "memory", !.op = "save", !.id = id, !.data = d,
                               !.draw = IF id = NoId THEN random_bytes ELSE <<>>,
                               !.session_id = IF id = NoId THEN GenerateId(random_bytes)
                                              ELSE id])
    /\ Pending(p)
    /\ Goto(p, "save")
    /\ UNCHANGED <<sessions, rwlock, history, outsideMemory>>

\* A write lock taken without regard to the readers.
MemSaveWriteAmongReaders(p) ==
    /\ task[p] = "save"
    /\ ~rwlock.writer
    /\ rwlock' = [rwlock EXCEPT !.writer = TRUE]
    /\ Locked(p)
    /\ Goto(p, "save_write")
    /\ UNCHANGED <<sessions, result, history, started, outsideMemory>>

\* let mut sessions = self.sessions.write().unwrap()
MemSaveWrite(p) ==
    /\ task[p] = "save"
    /\ CanWrite(rwlock)
    /\ rwlock' = [rwlock EXCEPT !.writer = TRUE]
    /\ Locked(p)
    /\ Goto(p, "save_write")
    /\ UNCHANGED <<sessions, result, history, started, outsideMemory>>

\* A save that stores the SessionData with its flag lowered.
MemSaveReturnResets(p) ==
    /\ task[p] = "save_write"
    /\ sessions' = HashMapInsert(sessions, call[p].session_id,
                                 [call[p].data EXCEPT !.modified = FALSE])
    /\ history' = Append(history, Mutation(p, HashMapHas(sessions, call[p].session_id)))
    /\ result' = [result EXCEPT ![p] = [Outcome("Ok") EXCEPT !.id = call[p].session_id]]
    /\ rwlock' = [rwlock EXCEPT !.writer = FALSE]
    /\ Goto(p, "done")
    /\ UNCHANGED <<call, started, outsideMemory>>

\* A save that only updates: it stores nothing under an id that has no
\* entry.
MemSaveReturnOnlyUpdates(p) ==
    /\ task[p] = "save_write"
    /\ sessions' = IF HashMapHas(sessions, call[p].session_id)
                   THEN HashMapInsert(sessions, call[p].session_id, call[p].data)
                   ELSE sessions
    /\ history' = Append(history, Mutation(p, HashMapHas(sessions, call[p].session_id)))
    /\ result' = [result EXCEPT ![p] = [Outcome("Ok") EXCEPT !.id = call[p].session_id]]
    /\ rwlock' = [rwlock EXCEPT !.writer = FALSE]
    /\ Goto(p, "done")
    /\ UNCHANGED <<call, started, outsideMemory>>

\* sessions.insert(session_id.clone(), data.clone()); Ok(session_id)
MemSaveReturn(p) ==
    /\ task[p] = "save_write"
    /\ sessions' = HashMapInsert(sessions, call[p].session_id, call[p].data)
    /\ history' = Append(history, Mutation(p, HashMapHas(sessions, call[p].session_id)))
    /\ result' = [result EXCEPT ![p] = [Outcome("Ok") EXCEPT !.id = call[p].session_id]]
    /\ rwlock' = [rwlock EXCEPT !.writer = FALSE]
    /\ Goto(p, "done")
    /\ UNCHANGED <<call, started, outsideMemory>>

\* store.delete(&id) is called
MemDeleteCall(p, id) ==
    /\ Begin(p, [NoCall EXCEPT !.backend = "memory", !.op = "delete", !.id = id,
                               !.session_id = id])
    /\ Pending(p)
    /\ Goto(p, "delete")
    /\ UNCHANGED <<sessions, rwlock, history, outsideMemory>>

\* let mut sessions = self.sessions.write().unwrap()
MemDeleteWrite(p) ==
    /\ task[p] = "delete"
    /\ CanWrite(rwlock)
    /\ rwlock' = [rwlock EXCEPT !.writer = TRUE]
    /\ Locked(p)
    /\ Goto(p, "delete_write")
    /\ UNCHANGED <<sessions, result, history, started, outsideMemory>>

\* A delete that returns with its write guard alive.
MemDeleteReturnKeepsLock(p) ==
    /\ task[p] = "delete_write"
    /\ sessions' = HashMapRemove(sessions, call[p].id)
    /\ history' = Append(history, Mutation(p, HashMapHas(sessions, call[p].id)))
    /\ result' = [result EXCEPT ![p] = Outcome("Ok")]
    /\ Goto(p, "done")
    /\ UNCHANGED <<rwlock, call, started, outsideMemory>>

\* A delete that returns Ok and leaves the entry in the map.
MemDeleteReturnKeeps(p) ==
    /\ task[p] = "delete_write"
    /\ sessions' = sessions
    /\ history' = Append(history, Mutation(p, HashMapHas(sessions, call[p].id)))
    /\ result' = [result EXCEPT ![p] = Outcome("Ok")]
    /\ rwlock' = [rwlock EXCEPT !.writer = FALSE]
    /\ Goto(p, "done")
    /\ UNCHANGED <<call, started, outsideMemory>>

\* sessions.remove(id); Ok(())
MemDeleteReturn(p) ==
    /\ task[p] = "delete_write"
    /\ sessions' = HashMapRemove(sessions, call[p].id)
    /\ history' = Append(history, Mutation(p, HashMapHas(sessions, call[p].id)))
    /\ result' = [result EXCEPT ![p] = Outcome("Ok")]
    /\ rwlock' = [rwlock EXCEPT !.writer = FALSE]
    /\ Goto(p, "done")
    /\ UNCHANGED <<call, started, outsideMemory>>

\* A cleanup that sweeps every session and reports how many.
MemCleanupSweeps(p) ==
    /\ Begin(p, [NoCall EXCEPT !.backend = "memory", !.op = "cleanup"])
    /\ result' = [result EXCEPT ![p] = [Outcome("Ok") EXCEPT
                                            !.removed = Cardinality(sessions),
                                            !.at = Len(history)]]
    /\ sessions' = {}
    /\ Goto(p, "done")
    /\ UNCHANGED <<rwlock, history, outsideMemory>>

\* store.cleanup() -> Ok(0)
MemCleanup(p) ==
    /\ Begin(p, [NoCall EXCEPT !.backend = "memory", !.op = "cleanup"])
    /\ result' = [result EXCEPT ![p] = [Outcome("Ok") EXCEPT !.at = Len(history)]]
    /\ Goto(p, "done")
    /\ UNCHANGED <<sessions, rwlock, history, outsideMemory>>

\* Calls on the cookie stores; such a call runs in one step, as it shares
\* nothing.  Strings loaded there: "", a token of store 1, and
\* "e30" signed by store 1.
CookieProbes ==
    { <<>>,
      Save(KeyList[1], NoId, NoSession),
      <<101, 51, 48, DOT>> \o Sign(KeyList[1], <<101, 51, 48>>) }

Returns(p, c, r) ==
    /\ Begin(p, c)
    /\ result' = [result EXCEPT ![p] = r]
    /\ Goto(p, "done")
    /\ UNCHANGED <<sessions, rwlock, history, outsideMemory>>

\* What load returned, as the caller holds it: a SessionData whose map
\* iterates in the given order.
LoadedSession(loaded_data, order) ==
    [data |-> loaded_data.data, order |-> order, modified |-> loaded_data.modified]

TaskCookieLoad(p, s, input) ==
    \E order \in Perms(DOMAIN Load(secret_key[s], input).data) :
        Returns(p, [NoCall EXCEPT !.backend = "cookie", !.store = s, !.op = "load", !.id = input],
                [Outcome(Load(secret_key[s], input).kind) EXCEPT
                    !.found = (Load(secret_key[s], input).kind = "Ok"),
                    !.session = LoadedSession(Load(secret_key[s], input), order)])

TaskCookieSave(p, s, id, d) ==
    Returns(p, [NoCall EXCEPT !.backend = "cookie", !.store = s, !.op = "save", !.id = id, !.data = d],
            [Outcome("Ok") EXCEPT !.id = Save(secret_key[s], id, d)])

TaskCookieDelete(p, s, input) ==
    Returns(p, [NoCall EXCEPT !.backend = "cookie", !.store = s, !.op = "delete", !.id = input],
            Outcome(Delete(secret_key[s], input).kind))

TaskCookieCleanup(p, s) ==
    Returns(p, [NoCall EXCEPT !.backend = "cookie", !.store = s, !.op = "cleanup"],
            [Outcome(Cleanup(secret_key[s]).kind) EXCEPT
                !.removed = Cleanup(secret_key[s]).removed])

\* One caller (task 1) making call after call on the memory store and on
\* the cookie stores.  The cookie stores share nothing with the memory
\* store; their loads and saves are made before the map is first written.
Caller == 1

MemoryNext ==
    \/ \E id \in MemoryIds : MemLoadCall(Caller, id)
    \/ MemLoadRead(Caller)
    \/ MemLoadReturn(Caller)
    \/ \E id \in MemoryIds \cup {NoId}, d \in MemoryData, r \in Draws :
          MemSaveCall(Caller, id, d, r)
    \/ MemSaveWrite(Caller)
    \/ MemSaveReturn(Caller)
    \/ \E id \in MemoryIds : MemDeleteCall(Caller, id)
    \/ MemDeleteWrite(Caller)
    \/ MemDeleteReturn(Caller)
    \/ MemCleanup(Caller)
    \/ /\ history = <<>>
       /\ started[Caller] < MaxCalls
       /\ \E s \in Stores, input \in CookieProbes : TaskCookieLoad(Caller, s, input)
    \/ /\ history = <<>>
       /\ started[Caller] < MaxCalls
       /\ \E s \in Stores, d \in MemoryData : TaskCookieSave(Caller, s, NoId, d)
    \/ \E s \in Stores, input \in {<<>>, <<120>>} : TaskCookieDelete(Caller, s, input)
    \/ \E s \in Stores : TaskCookieCleanup(Caller, s)

SpecMemory == Init /\ [][MemoryNext]_vars

\* The SessionData the concurrent tasks save: empty and clean, empty and
\* dirty, and one with a pair under "a".
TaskData == MemoryData \cup {Set(New, <<97>>, VNum(7), <<(<<97>>)>>)}

\* Concurrent calls on the memory store: each task makes one call.
TasksNext ==
    \/ \E p \in Tasks, id \in MemoryIds : task[p] = "idle" /\ MemLoadCall(p, id)
    \/ \E p \in Tasks : MemLoadRead(p)
    \/ \E p \in Tasks : MemLoadReturn(p)
    \/ \E p \in Tasks, id \in MemoryIds \cup {NoId}, d \in TaskData, r \in Draws :
          task[p] = "idle" /\ MemSaveCall(p, id, d, r)
    \/ \E p \in Tasks : MemSaveWrite(p)
    \/ \E p \in Tasks : MemSaveReturn(p)
    \/ \E p \in Tasks, id \in MemoryIds : task[p] = "idle" /\ MemDeleteCall(p, id)
    \/ \E p \in Tasks : MemDeleteWrite(p)
    \/ \E p \in Tasks : MemDeleteReturn(p)
    \/ \E p \in Tasks : task[p] = "idle" /\ MemCleanup(p)

SpecTasks == Init /\ [][TasksNext]_vars

\* Concurrent calls of load, save and delete on one id, one call for each
\* task, under a scheduler that lets a call that can take its next step
\* take it: the thread of a call runs, and the lock is granted to a call
\* that waits for it once it stays free for that call.
FairNext ==
    \/ \E p \in Tasks : task[p] = "idle" /\ MemLoadCall(p, <<120>>)
    \/ \E p \in Tasks : MemLoadRead(p)
    \/ \E p \in Tasks : MemLoadReturn(p)
    \/ \E p \in Tasks, d \in MemoryData, r \in Draws :
          task[p] = "idle" /\ MemSaveCall(p, <<120>>, d, r)
    \/ \E p \in Tasks : MemSaveWrite(p)
    \/ \E p \in Tasks : MemSaveReturn(p)
    \/ \E p \in Tasks : task[p] = "idle" /\ MemDeleteCall(p, <<120>>)
    \/ \E p \in Tasks : MemDeleteWrite(p)
    \/ \E p \in Tasks : MemDeleteReturn(p)

\* The next step of the call of p: taking the lock, or returning.
Proceed(p) ==
    \/ MemLoadRead(p)
    \/ MemLoadReturn(p)
    \/ MemSaveWrite(p)
    \/ MemSaveReturn(p)
    \/ MemDeleteWrite(p)
    \/ MemDeleteReturn(p)

SpecFair ==
    /\ Init
    /\ [][FairNext]_vars
    /\ \A p \in Tasks : WF_vars(Proceed(p))

(***************************************************************************)
(* A caller and its SessionData.  A method of SessionData runs in one      *)
(* step: it takes &self or &mut self and shares nothing.                   *)
(***************************************************************************)
\* Most method calls a caller makes on its SessionData.
MaxOps == 3

Called(p, op, key, value, T, out) ==
    /\ last[p].n < MaxOps
    /\ last' = [last EXCEPT ![p] =
                   [op |-> op, key |-> key, value |-> value, T |-> T,
                    before |-> bag[p], out |-> out, n |-> last[p].n + 1]]

\* let mut data = SessionData::new();
BagNew(p) ==
    /\ Called(p, "new", <<>>, VNull, "none", None)
    /\ bag' = [bag EXCEPT ![p] = New]
    /\ UNCHANGED outsideBag

\* data.get::<T>(key)
BagGet(p, key, T) ==
    /\ Called(p, "get", key, VNull, T, Get(bag[p], key, T))
    /\ UNCHANGED <<bag, outsideBag>>

\* A set on a SessionData that the store's entries share with the caller.
BagSetShared(p, key, value) ==
    /\ Called(p, "set", key, value, "none", None)
    /\ \E order \in InsertOrders(bag[p], key) :
          /\ bag' = [bag EXCEPT ![p] = Set(bag[p], key, value, order)]
          /\ sessions' = {[id |-> e.id,
                           data |-> IF e.data = bag[p]
                                    THEN Set(bag[p], key, value, order)
                                    ELSE e.data] : e \in sessions}
    /\ UNCHANGED <<cookieVars, compareVars, repeatVars, postVars, createVars,
                   rwlock, task, call, result, history, started>>

\* data.set(key, value)
BagSet(p, key, value) ==
    /\ Called(p, "set", key, value, "none", None)
    /\ \E order \in InsertOrders(bag[p], key) :
          bag' = [bag EXCEPT ![p] = Set(bag[p], key, value, order)]
    /\ UNCHANGED outsideBag

\* data.remove(key)
BagRemove(p, key) ==
    /\ Called(p, "remove", key, VNull, "none", None)
    /\ bag' = [bag EXCEPT ![p] = Remove(bag[p], key)]
    /\ UNCHANGED outsideBag

\* data.clear()
BagClear(p) ==
    /\ Called(p, "clear", <<>>, VNull, "none", None)
    /\ bag' = [bag EXCEPT ![p] = Clear(bag[p])]
    /\ UNCHANGED outsideBag

\* A load on the memory store has returned to p.
HasLoaded(p) == task[p] = "done" /\ call[p].backend = "memory" /\ call[p].op = "load"

\* let mut data = store.load(&id)?.unwrap(): the caller takes the
\* SessionData its load returned.
BagLoaded(p) ==
    /\ task[p] = "done"
    /\ call[p].op = "load"
    /\ result[p].kind = "Ok"
    /\ result[p].found
    /\ Called(p, "load", call[p].id, VNull, "none", None)
    /\ bag' = [bag EXCEPT ![p] = result[p].session]
    /\ UNCHANGED outsideBag

\* What the callers of the model pass to set.
SetValues == {VNum(7), VStr(<<63>>), VBool(TRUE), Unserializable}

\* The methods of SessionData alone, called in any order by one caller.
BagNext ==
    \/ BagNew(Caller)
    \/ \E key \in SessionKeys, T \in GetTypes : BagGet(Caller, key, T)
    \/ \E key \in SessionKeys, value \in SetValues : BagSet(Caller, key, value)
    \/ \E key \in SessionKeys : BagRemove(Caller, key)
    \/ BagClear(Caller)

SpecBag == Init /\ [][BagNext]_vars

\* One caller with its SessionData and the stores: it reads and changes
\* the SessionData under the key "a", saves it on the memory store under the
\* id "x" and on a cookie store, loads what it saved, takes what a load
\* returned, and deletes the id.
SessionKey == <<97>>

SessionId == <<120>>

SessionNext ==
    \/ BagNew(Caller)
    \/ BagGet(Caller, SessionKey, "i64")
    \/ BagSet(Caller, SessionKey, VNum(7))
    \/ BagRemove(Caller, SessionKey)
    \/ BagClear(Caller)
    \/ BagLoaded(Caller)
    \/ \E r \in Draws : MemSaveCall(Caller, SessionId, bag[Caller], r)
    \/ MemSaveWrite(Caller)
    \/ MemSaveReturn(Caller)
    \/ MemLoadCall(Caller, SessionId)
    \/ MemLoadRead(Caller)
    \/ MemLoadReturn(Caller)
    \/ MemDeleteCall(Caller, SessionId)
    \/ MemDeleteWrite(Caller)
    \/ MemDeleteReturn(Caller)
    \/ /\ started[Caller] < MaxCalls
       /\ \E s \in Stores : TaskCookieSave(Caller, s, NoId, bag[Caller])
    \/ /\ started[Caller] < MaxCalls
       /\ call[Caller].backend = "cookie"
       /\ call[Caller].op = "save"
       /\ TaskCookieLoad(Caller, call[Caller].store, result[Caller].id)

SpecSession == Init /\ [][SessionNext]_vars

\* Two callers updating one session: each loads it, changes its copy
\* under a key of its own, and saves the copy under the same id.
UpdateId == <<120>>

UpdateKey(p) == <<96 + p>>

UpdateLoad(p) ==
    /\ started[p] = 0
    /\ MemLoadCall(p, UpdateId)

\* load(id)?.unwrap_or_else(SessionData::new)
UpdateTake(p) ==
    /\ HasLoaded(p)
    /\ last[p].n = 0
    /\ IF result[p].found THEN BagLoaded(p) ELSE BagNew(p)

UpdateChange(p) ==
    /\ last[p].n = 1
    /\ \E value \in {VNum(7), VStr(<<63>>)} : BagSet(p, UpdateKey(p), value)

UpdateSave(p) ==
    /\ last[p].n = 2
    /\ started[p] = 1
    /\ \E r \in Draws : MemSaveCall(p, UpdateId, bag[p], r)

UpdateNext ==
    \/ \E p \in Tasks : UpdateLoad(p)
    \/ \E p \in Tasks : MemLoadRead(p)
    \/ \E p \in Tasks : MemLoadReturn(p)
    \/ \E p \in Tasks : UpdateTake(p)
    \/ \E p \in Tasks : UpdateChange(p)
    \/ \E p \in Tasks : UpdateSave(p)
    \/ \E p \in Tasks : MemSaveWrite(p)
    \/ \E p \in Tasks : MemSaveReturn(p)

SpecUpdate == Init /\ [][UpdateNext]_vars

(***************************************************************************)
(* A Post made with Post::new and changed through its methods, and the     *)
(* clock Utc::now() reads.                                                 *)
(***************************************************************************)
\* The last reading of the clock.
MaxTime == 3

\* The texts given to Title::new and Body::new: "", " ", "a", " a".
Texts == {<<>>, <<32>>, <<97>>, <<32, 97>>}

Titles == {TitleNew(value).title : value \in {v \in Texts : TitleNew(v).ok}}

Bodies == {BodyNew(value) : value \in Texts}

\* Time passes.
Tick ==
    /\ now < MaxTime
    /\ now' = now + 1
    /\ UNCHANGED <<post, post_ret, outsidePost>>

\* let mut post = Post::new(title, slug, body, author_id);
PostCreate(title, body) ==
    /\ ~post.made
    /\ post' = PostNew(title, body, now)
    /\ post_ret' = [op |-> "new", kind |-> "Ok", before |-> post]
    /\ UNCHANGED <<now, outsidePost>>

\* post.publish()
PostPublish ==
    /\ post.made
    /\ post' = Publish(post, now).post
    /\ post_ret' = [op |-> "publish", kind |-> Publish(post, now).kind, before |-> post]
    /\ UNCHANGED <<now, outsidePost>>

\* post.archive()
PostArchive ==
    /\ post.made
    /\ post' = Archive(post)
    /\ post_ret' = [op |-> "archive", kind |-> "Ok", before |-> post]
    /\ UNCHANGED <<now, outsidePost>>

\* post.update_content(title, body)
PostUpdateContent(title, body) ==
    /\ post.made
    /\ post' = UpdateContent(post, title, body)
    /\ post_ret' = [op |-> "update_content", kind |-> "Ok", before |-> post]
    /\ UNCHANGED <<now, outsidePost>>

PostNext ==
    \/ Tick
    \/ \E title \in Titles, body \in Bodies : PostCreate(title, body)
    \/ PostPublish
    \/ PostArchive
    \/ \E title \in Titles, body \in Bodies : PostUpdateContent(title, body)

SpecPost == Init /\ [][PostNext]_vars

(***************************************************************************)
(* Tasks calling PostServiceImpl::create on one InMemoryPostRepository.    *)
(* The method awaits the repository three times (exists_by_slug, save,     *)
(* publish); each of these holds its lock for its whole body, and the      *)
(* tasks interleave between them.                                          *)
(***************************************************************************)
\* The ids PostId::generate() returns are drawn from 1..NumPostIds.
NumPostIds == 2

PostIds == 1..NumPostIds

\* The commands: slugs "a", "A", "b" and "", titles "T" and "".
CreateCommands ==
    {[title |-> t, slug |-> g, body |-> <<97>>] :
        t \in {<<84>>, <<>>}, g \in {<<97>>, <<65>>, <<98>>, <<>>}}

CreateReturns(p, kind) ==
    create' = [create EXCEPT ![p].pc = "done", ![p].result = CreateOutcome(kind, 0)]

\* create(cmd), to the answer of exists_by_slug (post_service.rs:38-49)
CreateCheck(p, cmd) ==
    /\ create[p].pc = "idle"
    /\ IF ~TitleNew(cmd.title).ok THEN CreateReturns(p, "Domain")
       ELSE IF ~SlugNew(cmd.slug).ok THEN CreateReturns(p, "Domain")
            ELSE IF ExistsBySlug(posts, SlugNew(cmd.slug).slug)
                 THEN CreateReturns(p, "Conflict")
                 ELSE create' = [create EXCEPT ![p].pc = "checked", ![p].cmd = cmd,
                                               ![p].title = TitleNew(cmd.title).title,
                                               ![p].slug = SlugNew(cmd.slug).slug]
    /\ UNCHANGED <<posts, events, outsideCreate>>

\* Post::new(..) with the id generated for it, and post_repo.save(&post)
\* (post_service.rs:51-56)
CreateSave(p, id) ==
    /\ create[p].pc = "checked"
    /\ create' = [create EXCEPT
                     ![p].pc = "saved",
                     ![p].entry = PostEntry(id, create[p].slug,
                                            PostNew(create[p].title,
                                                    BodyNew(create[p].cmd.body), now))]
    /\ posts' = RepoSave(posts, create'[p].entry)
    /\ UNCHANGED <<events, outsideCreate>>

\* events.publish(PostCreated {..}) and Ok(post) (post_service.rs:58-67)
CreatePublish(p) ==
    /\ create[p].pc = "saved"
    /\ events' = Append(events, create[p].entry.id)
    /\ create' = [create EXCEPT ![p].pc = "done",
                                ![p].result = CreateOutcome("Ok", create[p].entry.id)]
    /\ UNCHANGED <<posts, outsideCreate>>

CreateNext ==
    \/ \E p \in Tasks, cmd \in CreateCommands : CreateCheck(p, cmd)
    \/ \E p \in Tasks, id \in PostIds : CreateSave(p, id)
    \/ \E p \in Tasks : CreatePublish(p)

SpecCreate == Init /\ [][CreateNext]_vars

(***************************************************************************)
(* Properties                                                              *)
(***************************************************************************)
NumDots(t) == Cardinality({i \in 1..Len(t) : t[i] = DOT})

DotPos(t) == CHOOSE i \in 1..Len(t) : t[i] = DOT

\* The text before and after the '.' of a string that holds exactly one.
DataPart(t) == SubSeq(t, 1, DotPos(t) - 1)

SigPart(t) == SubSeq(t, DotPos(t) + 1, Len(t))

KeyOf(c) == secret_key[c.store]

TamperDetected ==
    (pc = "loaded" /\ presented.how \in {"changed", "truncated", "unseparated"})
        => loaded.kind = "Invalid"

TamperDetectedWitness ==
    /\ pc = "loaded"
    /\ presented.how = "changed"
    /\ presented.pos < DotPos(saved.token)
    /\ NumDots(presented.input) = 1
    /\ loaded.kind = "Invalid"

\* C3 as stated: load returns Ok only for a token whose signature part is
\* the MAC of its data part under the loading store's key, and a token
\* issued under one key is rejected with Invalid by a store built with any
\* different key.
KeyBindingAnyKey ==
    /\ loaded.kind = "Ok" =>
          SigPart(presented.input) = Sign(KeyOf(presented), DataPart(presented.input))
    /\ (pc = "loaded" /\ presented.how = "issued" /\ KeyOf(presented) # KeyOf(saved))
          => loaded.kind = "Invalid"

\* C3 as amended: the same, for a key that differs from the issuing key
\* after HMAC's zero padding of the key to the block size.
KeyBinding ==
    /\ loaded.kind = "Ok" =>
          SigPart(presented.input) = Sign(KeyOf(presented), DataPart(presented.input))
    /\ (/\ pc = "loaded"
        /\ presented.how = "issued"
        /\ HmacKey(KeyOf(presented)) # HmacKey(KeyOf(saved)))
          => loaded.kind = "Invalid"

KeyBindingWitness ==
    /\ pc = "loaded"
    /\ presented.how = "issued"
    /\ HmacKey(KeyOf(presented)) # HmacKey(KeyOf(saved))
    /\ loaded.kind = "Invalid"

\* C4 as stated: every input that does not consist of exactly two
\* non-empty parts around one '.' makes load return Invalid.
StructuralInvalid ==
    (/\ pc = "loaded"
     /\ \/ NumDots(presented.input) # 1
        \/ Head(presented.input) = DOT
        \/ presented.input[Len(presented.input)] = DOT)
        => loaded.kind = "Invalid"

\* C4 as amended: an input with no '.', with more than one, or with an
\* empty signature part makes load return Invalid; an input with an empty
\* data part is never accepted, and makes load return Invalid unless its
\* signature part is the MAC of the empty string under the store's key,
\* when load returns Serialization.
StructuralRejected ==
    pc = "loaded" =>
        /\ NumDots(presented.input) # 1 => loaded.kind = "Invalid"
        /\ (NumDots(presented.input) = 1 /\ SigPart(presented.input) = <<>>)
              => loaded.kind = "Invalid"
        /\ (NumDots(presented.input) = 1 /\ DataPart(presented.input) = <<>>)
              => loaded.kind =
                    IF SigPart(presented.input) = Sign(KeyOf(presented), <<>>)
                    THEN "Serialization" ELSE "Invalid"

StructuralRejectedWitness ==
    /\ pc = "loaded"
    /\ NumDots(presented.input) = 1
    /\ DataPart(presented.input) = <<>>
    /\ loaded.kind = "Serialization"

\* C5: two save calls under the same secret key, with SessionData that hold
\* the same key/value pairs and the same modified flag, return the same
\* token, also when the two SessionData are separate instances.
SaveDeterministic ==
    (/\ pc = "resaved"
     /\ KeyOf(resaved) = KeyOf(saved)
     /\ SamePairs(resaved.data, saved.data))
        => resaved.token = saved.token

\* C6: save does not read its id argument: two save calls on one store with
\* the same SessionData return the same token whatever ids they are given.
SaveIgnoresId ==
    (pc = "resaved" /\ resaved.store = saved.store /\ resaved.data = saved.data)
        => resaved.token = saved.token

SaveIgnoresIdWitness ==
    /\ pc = "resaved"
    /\ resaved.store = saved.store
    /\ resaved.data = saved.data
    /\ saved.id = NoId
    /\ resaved.id # NoId
    /\ resaved.token = saved.token

\* C7: an input whose signature part verifies under the store's key, and
\* whose data part is not base64 or does not decode to a SessionData, makes
\* load return Serialization.
UnreadableIsSerialization ==
    (/\ pc = "loaded"
     /\ NumDots(presented.input) = 1
     /\ SigPart(presented.input) = Sign(KeyOf(presented), DataPart(presented.input))
     /\ \/ ~B64Decode(DataPart(presented.input)).ok
        \/ ~Deserialize(B64Decode(DataPart(presented.input)).bytes).ok)
        => loaded.kind = "Serialization"

UnreadableIsSerializationWitness ==
    /\ pc = "loaded"
    /\ NumDots(presented.input) = 1
    /\ SigPart(presented.input) = Sign(KeyOf(presented), DataPart(presented.input))
    /\ ~B64Decode(DataPart(presented.input)).ok
    /\ loaded.kind = "Serialization"

\* C8: in every token returned by save the data part is the base64 text of
\* the serialized SessionData and the signature part is the base64 text of
\* the MAC, under the store's key, of the bytes of that data part (not of
\* the serialized bytes); a load that accepts a string has verified the MAC
\* of the undecoded data part.
SignatureCoversText ==
    /\ saved.store # 0 =>
          /\ NumDots(saved.token) = 1
          /\ DataPart(saved.token) = B64Encode(Serialize(saved.data))
          /\ SigPart(saved.token)
                = B64Encode(HmacSha256(KeyOf(saved), DataPart(saved.token)))
    /\ loaded.kind = "Ok" =>
          SigPart(presented.input)
                = B64Encode(HmacSha256(KeyOf(presented), DataPart(presented.input)))

SignatureCoversTextWitness ==
    /\ pc = "loaded"
    /\ presented.how = "issued"
    /\ saved.data.order # <<>>
    /\ loaded.kind = "Ok"

\* C9 as stated: the data part of a token returned by save holds no '+' and
\* no '/', and the token holds exactly one '.'.
UrlSafeDataPart ==
    saved.store # 0 =>
        /\ NumDots(saved.token) = 1
        /\ \A i \in 1..Len(DataPart(saved.token)) :
              DataPart(saved.token)[i] \notin {43, 47}

\* C9 as amended: the data part of a token returned by save is written in
\* the standard base64 alphabet (A-Z a-z 0-9 + /) with '=' padding to a
\* multiple of four characters, and the token holds exactly one '.'.
StandardDataPart ==
    saved.store # 0 =>
        /\ NumDots(saved.token) = 1
        /\ Len(DataPart(saved.token)) % 4 = 0
        /\ \A i \in 1..Len(DataPart(saved.token)) :
              \/ B64Val(DataPart(saved.token)[i]) >= 0
              \/ DataPart(saved.token)[i] = PAD

StandardDataPartWitness ==
    /\ pc = "saved"
    /\ \E i \in 1..Len(DataPart(saved.token)) : DataPart(saved.token)[i] = 47

\* C10: the comparison of a presented signature with the expected one does
\* the same work whatever the number of leading characters that match: a
\* comparison of two signatures of the same length looks at every byte.
ConstantTimeCompare ==
    (cmp.phase = "done" /\ Len(cmp.signature) = Len(cmp.expected))
        => cmp.steps = Len(cmp.expected)

\* C11: no call on a cookie store changes its secret key, and the result
\* of a call does not depend on the calls made before it: every store holds
\* the key it was constructed with, and a string loaded a second time on
\* the same store, after any calls of delete, cleanup, save and load on any
\* store, gives the result of the first load.
StatelessPure ==
    /\ secret_key = [s \in Stores |-> KeyList[s]]
    /\ pc = "reloaded" => Plain(reloaded.session) = Plain(loaded.session)
    /\ pc = "reloaded" => reloaded.kind = loaded.kind

StatelessPureWitness ==
    /\ pc = "reloaded"
    /\ between.count = MaxBetween
    /\ between.op = "save"
    /\ loaded.kind = "Ok"
    /\ DOMAIN loaded.session.data # {}
    /\ reloaded.kind = "Ok"

\* C12: delete on a cookie store returns Ok(()) for every string, a token
\* or not, and revokes nothing: a token that load accepted before
\* delete(token) on the same store is accepted afterwards, with the same
\* data.
DeleteRevokesNothing ==
    /\ between.op = "delete" => between.kind = "Ok"
    /\ (pc = "reloaded" /\ revoked /\ loaded.kind = "Ok")
          => /\ reloaded.kind = "Ok"
             /\ Plain(reloaded.session) = Plain(loaded.session)

DeleteRevokesNothingWitness ==
    /\ pc = "reloaded"
    /\ revoked
    /\ between.op = "delete"
    /\ between.input = <<>>
    /\ loaded.kind = "Ok"
    /\ reloaded.kind = "Ok"

\* The calls of the memory store that have returned.
HasReturned(p, op) ==
    task[p] = "done" /\ call[p].backend = "memory" /\ call[p].op = op

\* The latest mutation of id among the first n, or 0.
LastOn(n, id) ==
    IF \A i \in 1..n : history[i].id # id THEN 0
    ELSE CHOOSE i \in 1..n : /\ history[i].id = id
                             /\ \A j \in (i + 1)..n : history[j].id # id

\* Mutation j is a save(Some(id), d2) on an id that an earlier save(None, d1)
\* returned.
Overwrites(j) ==
    /\ history[j].op = "save"
    /\ history[j].given # NoId
    /\ \E i \in 1..(j - 1) : /\ history[i].op = "save"
                             /\ history[i].given = NoId
                             /\ history[i].id = history[j].id

Readers == {p \in Tasks : task[p] = "load_read"}

Writers == {p \in Tasks : task[p] \in {"save_write", "delete_write"}}

\* C13: a save(Some(id), d2), for an id that save(None, d1) returned,
\* returns id; a load(id) that follows it, with no other save or delete of
\* id between, returns d2; and the map holds one entry for an id.
StatefulOverwrite ==
    /\ \A p \in Tasks :
          (HasReturned(p, "save") /\ call[p].id # NoId) => result[p].id = call[p].id
    /\ \A p \in Tasks :
          (/\ HasReturned(p, "load")
           /\ LastOn(result[p].at, call[p].id) > 0
           /\ Overwrites(LastOn(result[p].at, call[p].id)))
              => /\ result[p].found
                 /\ Plain(result[p].session)
                      = Plain(history[LastOn(result[p].at, call[p].id)].data)
    /\ \A id \in MemoryIds : Cardinality({e \in sessions : e.id = id}) <= 1

StatefulOverwriteWitness ==
    \E p \in Tasks :
        /\ HasReturned(p, "load")
        /\ result[p].at = 2
        /\ LastOn(2, call[p].id) = 2
        /\ Overwrites(2)
        /\ history[1].data # history[2].data
        /\ result[p].session = history[2].data

\* C14: a load on the memory store returns Ok(None) when the id was never
\* saved or its latest save or delete was a delete, and Ok(Some(d)) with d
\* the data of its latest save otherwise; no call of the memory store
\* returns an error, a delete of an absent id included.
StatefulAbsence ==
    /\ \A p \in Tasks :
          (task[p] = "done" /\ call[p].backend = "memory") => result[p].kind = "Ok"
    /\ \A p \in Tasks :
          HasReturned(p, "load") =>
              IF LastOn(result[p].at, call[p].id) = 0 THEN ~result[p].found
              ELSE IF history[LastOn(result[p].at, call[p].id)].op = "delete"
                   THEN ~result[p].found
                   ELSE /\ result[p].found
                        /\ Plain(result[p].session)
                             = Plain(history[LastOn(result[p].at, call[p].id)].data)

StatefulAbsenceWitness ==
    \E p \in Tasks :
        /\ HasReturned(p, "load")
        /\ result[p].at = 2
        /\ LastOn(2, call[p].id) = 2
        /\ history[1].op = "save"
        /\ history[2].op = "delete"
        /\ history[2].had
        /\ ~result[p].found

\* C15 as stated: the ids returned by the calls of save(None, data) on one
\* store are pairwise distinct.
FreshIdsDistinct ==
    \A i, j \in 1..Len(history) :
        (/\ i < j
         /\ history[i].op = "save" /\ history[i].given = NoId
         /\ history[j].op = "save" /\ history[j].given = NoId)
            => history[i].id # history[j].id

\* C15 as amended: the ids returned by the calls of save(None, data) on one
\* store are pairwise distinct whenever the random bytes drawn for them are:
\* the id is the hex text of the draw, and no collision is looked for.
FreshIdsFollowDraws ==
    \A i, j \in 1..Len(history) :
        (/\ i < j
         /\ history[i].op = "save" /\ history[i].given = NoId
         /\ history[j].op = "save" /\ history[j].given = NoId
         /\ history[i].draw # history[j].draw)
            => history[i].id # history[j].id

FreshIdsFollowDrawsWitness ==
    /\ Len(history) >= 2
    /\ history[1].op = "save" /\ history[1].given = NoId
    /\ history[2].op = "save" /\ history[2].given = NoId
    /\ history[1].draw # history[2].draw
    /\ Cardinality(sessions) = 2

\* C16: the id of a save called without an id is 64 characters long, each
\* one of 0-9 a-f.
HandleFormat ==
    \A p \in Tasks :
        (call[p].backend = "memory" /\ call[p].op = "save" /\ call[p].id = NoId)
            => /\ Len(call[p].session_id) = 64
               /\ \A i \in 1..Len(call[p].session_id) :
                     call[p].session_id[i] \in (48..57) \cup (97..102)
               /\ task[p] = "done" => result[p].id = call[p].session_id

HandleFormatWitness ==
    \E p \in Tasks :
        /\ HasReturned(p, "save")
        /\ call[p].id = NoId
        /\ \E i \in 1..64 : result[p].id[i] >= 97
        /\ \E i \in 1..64 : result[p].id[i] <= 57

\* A call of cleanup by task p, made in one step.
CleanupStep(p) ==
    /\ started'[p] = started[p] + 1
    /\ call'[p].op = "cleanup"
    /\ task'[p] = "done"
    /\ \A q \in Tasks \ {p} : call'[q] = call[q] /\ task'[q] = task[q]

\* C17: a call of cleanup, on a cookie store or on the memory store,
\* returns Ok(0) and leaves the map of the memory store, its ids and their
\* data, as it was.
CleanupRemovesNothing ==
    [][\A p \in Tasks :
          CleanupStep(p) => /\ sessions' = sessions
                            /\ result'[p].kind = "Ok"
                            /\ result'[p].removed = 0]_vars

CleanupRemovesNothingWitness ==
    \E p \in Tasks :
        /\ HasReturned(p, "cleanup")
        /\ result[p].at = Len(history)
        /\ Cardinality(sessions) = 2
        /\ result[p].removed = 0

\* C18: no call on either store returns Storage or Expired; the calls of
\* the memory store return Ok; and Invalid comes from load on a cookie
\* store only.
ClosedTaxonomy ==
    \A p \in Tasks :
        /\ result[p].kind \in {"none", "Ok", "Invalid", "Serialization"}
        /\ (task[p] = "done" /\ call[p].backend = "memory") => result[p].kind = "Ok"
        /\ result[p].kind \in {"Invalid", "Serialization"}
              => (call[p].backend = "cookie" /\ call[p].op = "load")

ClosedTaxonomyWitness ==
    \E p \in Tasks :
        /\ started[p] >= 2
        /\ task[p] = "done"
        /\ call[p].backend = "cookie"
        /\ call[p].op = "load"
        /\ result[p].kind = "Invalid"

\* C19: a save or a delete that holds the lock holds it alone: no other
\* save or delete and no load holds it then.  (Loads can hold it together.)
WriterExclusion ==
    /\ Cardinality(Writers) <= 1
    /\ Writers # {} => Readers = {}

WriterExclusionWitness ==
    /\ \E p \in Tasks : task[p] = "delete_write"
    /\ \E p \in Tasks : task[p] = "load"

\* C20: a call takes the lock at most once and gives it back before it
\* returns: the lock is held by the calls that are under it and by nothing
\* else, so it is free whenever no call is in progress.
LockScopedPerCall ==
    /\ rwlock.readers = Cardinality(Readers)
    /\ rwlock.writer = (Writers # {})
    /\ \A p \in Tasks : call[p].locks <= 1
    /\ (\A p \in Tasks : task[p] \in {"idle", "done"}) => rwlock = LockFree

LockScopedPerCallWitness ==
    /\ \A p \in Tasks : task[p] \in {"idle", "done"}
    /\ \E p \in Tasks : call[p].op = "load" /\ call[p].locks = 1
    /\ \E p \in Tasks : call[p].op = "save" /\ call[p].locks = 1
    /\ rwlock = LockFree

\* Two loads under the lock at once.
ReadersTogether == Cardinality(Readers) >= 2

\* No call on the memory store is in progress.
Quiet == \A p \in Tasks : task[p] \in {"idle", "done"}

\* What the save that took the write lock last, among those on id, stored.
LastSaved(id) == history[LastOn(Len(history), id)].data

\* C21: when saves with a given id run concurrently, each returns Ok(id),
\* and once all calls have returned a load of the id yields exactly the
\* SessionData of the save that took the write lock last.
LastWriterWins ==
    /\ \A p \in Tasks :
          (HasReturned(p, "save") /\ call[p].id # NoId)
              => (result[p].kind = "Ok" /\ result[p].id = call[p].id)
    /\ Quiet =>
          \A id \in MemoryIds :
              (LastOn(Len(history), id) > 0 /\ history[LastOn(Len(history), id)].op = "save")
                  => MemLoadResult(sessions, id, 0) =
                         [Outcome("Ok") EXCEPT !.found = TRUE, !.session = LastSaved(id)]

LastWriterWinsWitness ==
    /\ Quiet
    /\ Len(history) = 2
    /\ \A i \in 1..2 : /\ history[i].op = "save"
                       /\ history[i].given = <<120>>
    /\ history[1].data.data # history[2].data.data
    /\ \A p \in Tasks : HasReturned(p, "save") /\ result[p].id = <<120>>
    /\ MemLoadResult(sessions, <<120>>, 0).session = history[2].data

\* Every caller has saved its copy.
AllUpdated == \A p \in Tasks : HasReturned(p, "save")

\* C22: load, change, save is not atomic: no call reports an error, and
\* when every caller has saved, the store holds exactly the copy of one
\* caller, so that the change of another caller is there only if that copy
\* was loaded after the other had saved.
LoadThenSaveNotAtomic ==
    /\ \A p \in Tasks : task[p] = "done" => result[p].kind = "Ok"
    /\ AllUpdated =>
          \E p \in Tasks :
              /\ MemLoadResult(sessions, UpdateId, 0).session = bag[p]
              /\ bag[p] = LastSaved(UpdateId)
              /\ \A q \in Tasks \ {p} :
                    (UpdateKey(q) \in DOMAIN bag[p].data)
                        <=> (UpdateKey(q) \in DOMAIN last[p].before.data)

\* A lost update: every caller's save returned Ok, and the change of one
\* of them is not in the stored SessionData.
LostUpdate ==
    /\ AllUpdated
    /\ \A p \in Tasks : result[p].kind = "Ok"
    /\ \E q \in Tasks :
          UpdateKey(q) \notin DOMAIN MemLoadResult(sessions, UpdateId, 0).session.data

\* The last call on the SessionData of p was a set whose value serialized.
SetDone(p) == last[p].op = "set" /\ ToValue(last[p].value).ok

\* The last call on the SessionData of p was a set whose value did not.
SetFailed(p) == last[p].op = "set" /\ ~ToValue(last[p].value).ok

\* C23 as stated: after any call of set, remove or clear the flag is up,
\* and a call of get leaves the flag as it was.
MutatorsAlwaysDirty ==
    \A p \in Tasks :
        /\ last[p].op \in {"set", "remove", "clear"} => bag[p].modified
        /\ last[p].op = "get" => bag[p].modified = last[p].before.modified

\* C23 as amended: after a call of set whose value serializes, and after
\* any call of remove or clear, the flag is up, whatever the map held; a
\* call of get leaves the flag as it was.
MutatorsDirty ==
    \A p \in Tasks :
        /\ (SetDone(p) \/ last[p].op \in {"remove", "clear"}) => bag[p].modified
        /\ last[p].op = "get" => bag[p].modified = last[p].before.modified

MutatorsDirtyWitness ==
    \E p \in Tasks :
        /\ last[p].op = "clear"
        /\ last[p].before = New
        /\ bag[p].modified

\* C24: a set whose value fails to serialize leaves the SessionData as it
\* was: the same pairs and the same flag.
FailedSetChangesNothing ==
    \A p \in Tasks : SetFailed(p) => bag[p] = last[p].before

FailedSetChangesNothingWitness ==
    \E p \in Tasks :
        /\ SetFailed(p)
        /\ ~last[p].before.modified
        /\ bag[p] = New
        /\ last[p].n >= 2

\* The step gives p another instance: a new one, or one a load returned.
Replaced(p) == last'[p].n # last[p].n /\ last'[p].op \in {"new", "load"}

\* C25: no step, be it a call of get, set, remove or clear or a step of a
\* save on a store, lowers the flag of an instance; the flag is down only
\* on an instance that never had it up.
ModifiedMonotone ==
    [][\A p \in Tasks :
          (bag[p].modified /\ ~Replaced(p)) => bag'[p].modified]_vars

ModifiedMonotoneWitness ==
    \E p \in Tasks :
        /\ HasReturned(p, "save")
        /\ call[p].data = bag[p]
        /\ last[p].op = "get"
        /\ last[p].before.modified
        /\ bag[p].modified

\* A step of a call of save by p, on either store.
SaveStep(p) ==
    \/ started'[p] # started[p] /\ call'[p].op = "save"
    \/ call[p].op = "save" /\ task'[p] # task[p]

\* p loads, on the cookie store that issued it, the token its save returned.
LoadsItsToken(p) ==
    /\ call[p].backend = "cookie"
    /\ call[p].op = "save"
    /\ started'[p] # started[p]
    /\ call'[p].backend = "cookie"
    /\ call'[p].op = "load"
    /\ call'[p].id = result[p].id
    /\ call'[p].store = call[p].store

\* C26: a save on either store leaves the caller's SessionData as it was,
\* and what a load returns carries the flag the SessionData had when it
\* was saved: on the memory store the flag of the latest save on the id,
\* on a cookie store the flag of the save that returned the token.
StoreKeepsDirtyFlag ==
    /\ [](\A p \in Tasks :
             (HasLoaded(p) /\ result[p].found)
                 => result[p].session.modified
                        = history[LastOn(result[p].at, call[p].id)].data.modified)
    /\ [][\A p \in Tasks :
             /\ SaveStep(p) => bag'[p] = bag[p]
             /\ LoadsItsToken(p) => /\ result'[p].kind = "Ok"
                                    /\ result'[p].found
                                    /\ result'[p].session.modified = call[p].data.modified]_vars

StoreKeepsDirtyFlagWitness ==
    \E p \in Tasks :
        /\ HasLoaded(p)
        /\ result[p].found
        /\ result[p].session.modified
        /\ DOMAIN result[p].session.data # {}
        /\ bag[p] = result[p].session

\* A token saved from a dirty SessionData, loaded.
CookieKeepsDirtyFlag ==
    \E p \in Tasks :
        /\ call[p].backend = "cookie"
        /\ call[p].op = "load"
        /\ result[p].kind = "Ok"
        /\ result[p].session.modified
        /\ bag[p].modified

\* The value decodes as the type: any value as Value, a number as i64, a
\* string as String, a boolean as bool.
Decodable(v, T) ==
    \/ T = "Value"
    \/ T = "i64" /\ v.t = "Number"
    \/ T = "String" /\ v.t = "String"
    \/ T = "bool" /\ v.t = "Bool"

\* What get is to return for key and T on the SessionData d.
Expected(d, key, T) ==
    IF key \in DOMAIN d.data /\ Decodable(d.data[key], T)
    THEN Some(d.data[key])
    ELSE None

\* C27: get returns the stored value when the key is there and the value
\* decodes as the type asked for, and None otherwise, leaving the
\* SessionData as it was; after a set(k, v) that serialized, get(k)
\* returns v, whatever was stored under k before.
GetDecodes ==
    \A p \in Tasks :
        /\ last[p].op = "get"
              => /\ last[p].out = Expected(last[p].before, last[p].key, last[p].T)
                 /\ bag[p] = last[p].before
        /\ SetDone(p)
              => \A T \in GetTypes :
                    Get(bag[p], last[p].key, T) =
                        IF Decodable(last[p].value, T) THEN Some(last[p].value) ELSE None

GetDecodesWitness ==
    \E p \in Tasks :
        /\ last[p].op = "get"
        /\ last[p].n = MaxOps
        /\ last[p].key \in DOMAIN bag[p].data
        /\ Cardinality(DOMAIN bag[p].data) = 2
        /\ last[p].T = "i64"
        /\ bag[p].data[last[p].key].t = "String"
        /\ last[p].out = None

\* After set(k, v1), set(k, v2): get(k) is to return v2.
SetTwice ==
    \E p \in Tasks :
        /\ SetDone(p)
        /\ last[p].key \in DOMAIN last[p].before.data
        /\ last[p].before.data[last[p].key] # last[p].value
        /\ Get(bag[p], last[p].key, "Value") = Some(last[p].value)

\* What a load of id returns, the map being as it is.
Stored(id) == MemLoadResult(sessions, id, 0)

\* C28: the memory store holds a copy of its own: a call of set, remove,
\* clear or get on a SessionData a caller holds, saved before or taken
\* from a load, leaves what a load returns as it was; what a load of an id
\* returns changes only when a save or a delete on that id writes, and a
\* load returns what the latest of them left.
StoreOwnsCopy ==
    /\ [](\A p \in Tasks :
             HasLoaded(p) =>
                 IF /\ LastOn(result[p].at, call[p].id) > 0
                    /\ history[LastOn(result[p].at, call[p].id)].op = "save"
                 THEN /\ result[p].found
                      /\ result[p].session = history[LastOn(result[p].at, call[p].id)].data
                 ELSE ~result[p].found)
    /\ [][/\ \A p \in Tasks : last'[p] # last[p] => sessions' = sessions
          /\ \A id \in MemoryIds :
                Stored(id)' # Stored(id)
                    => \E p \in Tasks : /\ task[p] \in {"save_write", "delete_write"}
                                        /\ task'[p] = "done"
                                        /\ call[p].session_id = id]_vars

StoreOwnsCopyWitness ==
    \E p \in Tasks :
        /\ HasLoaded(p)
        /\ result[p].found
        /\ last[p].op \in {"set", "remove", "clear"}
        /\ last[p].before = result[p].session
        /\ bag[p].data # result[p].session.data
        /\ Stored(call[p].id).session = result[p].session

\* C29: a Post whose status is Published has its published_at set, and a
\* publish that returned Ok left the Post Published with published_at
\* set.
PublishedHasTime ==
    /\ (post.made /\ post.status = "Published") => post.published_at.set
    /\ (post_ret.op = "publish" /\ post_ret.kind = "Ok")
          => (post.status = "Published" /\ post.published_at.set)

PublishedHasTimeWitness ==
    /\ post_ret.op = "publish"
    /\ post_ret.kind = "Ok"
    /\ post_ret.before.status = "Archived"
    /\ post_ret.before.published_at.set
    /\ post.status = "Published"
    /\ post.published_at.at > post_ret.before.published_at.at

\* A Post that was published and archived keeps its published_at.
ArchivedKeepsTime ==
    /\ post.status = "Archived"
    /\ post.published_at.set

\* C30 as stated: publish returns CannotPublishEmptyPost on a blank body
\* and AlreadyPublished on a Published post, both leaving status and
\* published_at as they were, and Ok from Draft and from Archived when
\* the body is not blank.
PublishErrorsAsStated ==
    post_ret.op = "publish" =>
        /\ BodyIsEmpty(post_ret.before.body) => post_ret.kind = "CannotPublishEmptyPost"
        /\ post_ret.before.status = "Published" => post_ret.kind = "AlreadyPublished"
        /\ post_ret.kind # "Ok" => /\ post.status = post_ret.before.status
                                   /\ post.published_at = post_ret.before.published_at
        /\ (post_ret.before.status \in {"Draft", "Archived"}
               /\ ~BodyIsEmpty(post_ret.before.body)) => post_ret.kind = "Ok"

\* C30 as amended: publish returns CannotPublishEmptyPost on a blank body,
\* and AlreadyPublished on a Published post whose body is not blank, both
\* leaving status and published_at as they were, and Ok from Draft and
\* from Archived when the body is not blank.
PublishErrors ==
    post_ret.op = "publish" =>
        /\ BodyIsEmpty(post_ret.before.body) => post_ret.kind = "CannotPublishEmptyPost"
        /\ (post_ret.before.status = "Published" /\ ~BodyIsEmpty(post_ret.before.body))
              => post_ret.kind = "AlreadyPublished"
        /\ post_ret.kind # "Ok" => /\ post.status = post_ret.before.status
                                   /\ post.published_at = post_ret.before.published_at
        /\ (post_ret.before.status \in {"Draft", "Archived"}
               /\ ~BodyIsEmpty(post_ret.before.body)) => post_ret.kind = "Ok"

PublishErrorsWitness ==
    /\ post_ret.op = "publish"
    /\ post_ret.before.status = "Published"
    /\ BodyIsEmpty(post_ret.before.body)
    /\ post_ret.before.body # <<>>
    /\ post_ret.kind = "CannotPublishEmptyPost"
    /\ post = post_ret.before
    /\ now > post.published_at.at

\* A second publish of a Published post with a body.
PublishedTwice ==
    /\ post_ret.op = "publish"
    /\ post_ret.kind = "AlreadyPublished"
    /\ post = post_ret.before

\* The ids that have an entry after the first n mutations.
IdsAfter(n) ==
    {id \in MemoryIds : LastOn(n, id) > 0 /\ history[LastOn(n, id)].op = "save"}

\* The ids of the map.
StoredIds == {e.id : e \in sessions}

\* C31: a save with a given id that has no entry, never saved or deleted
\* earlier, returns Ok with that id and makes an entry under it holding
\* the SessionData given, and no other entry: the map then has the ids it
\* had and the given one.
SaveCreatesUnderGivenId ==
    /\ StoredIds = IdsAfter(Len(history))
    /\ \A j \in 1..Len(history) :
          (history[j].op = "save" /\ history[j].given # NoId)
              => /\ history[j].id = history[j].given
                 /\ IdsAfter(j) = IdsAfter(j - 1) \cup {history[j].given}
    /\ \A p \in Tasks :
          (HasReturned(p, "save") /\ call[p].id # NoId)
              => /\ result[p].kind = "Ok"
                 /\ result[p].id = call[p].id
                 /\ Stored(call[p].id).found
                 /\ Stored(call[p].id).session = call[p].data

SaveCreatesUnderGivenIdWitness ==
    \E p \in Tasks :
        /\ HasReturned(p, "save")
        /\ call[p].id = <<120>>
        /\ Len(history) = 3
        /\ history[1].op = "save" /\ history[1].id = <<120>>
        /\ history[2].op = "delete" /\ history[2].id = <<120>> /\ history[2].had
        /\ history[3].op = "save" /\ ~history[3].had
        /\ result[p].id = <<120>>
        /\ StoredIds = {<<120>>}

\* A save with a given id that was never in the map, beside another entry.
SaveUnderUnknownId ==
    /\ Len(history) = 2
    /\ history[1].given = NoId
    /\ history[2].op = "save" /\ history[2].given = <<120>> /\ ~history[2].had
    /\ Cardinality(StoredIds) = 2

\* The step is the write of a save or a delete by p.
WriteStep(p) == task[p] \in {"save_write", "delete_write"} /\ task'[p] = "done"

\* The step is one of a load by p: its call, its lock or its return.
LoadStep(p) ==
    \/ started'[p] # started[p] /\ call'[p].backend = "memory" /\ call'[p].op = "load"
    \/ task[p] \in {"load", "load_read"} /\ task'[p] # task[p]

\* C32: the write of a save or of a delete on an id leaves every other id
\* as it was, present or absent and with the same data, and no step of a
\* load changes the map.
SessionsIsolated ==
    [][\A p \in Tasks :
          /\ WriteStep(p) => \A b \in MemoryIds \ {call[p].session_id} :
                                 Stored(b)' = Stored(b)
          /\ LoadStep(p) => sessions' = sessions]_vars

SessionsIsolatedWitness ==
    /\ Len(history) = 3
    /\ history[1].op = "save"
    /\ history[2].op = "save" /\ history[2].id # history[1].id
    /\ history[3].op = "delete" /\ history[3].id = history[1].id /\ history[3].had
    /\ StoredIds = {history[2].id}
    /\ Stored(history[2].id).session = history[2].data

\* What load(id) returns on a plain map to which the first n mutations
\* were applied one after the other.
PlainLoad(n, id) ==
    IF id \in IdsAfter(n)
    THEN [Outcome("Ok") EXCEPT !.found = TRUE, !.session = history[LastOn(n, id)].data]
    ELSE Outcome("Ok")

\* What the call of p returns in the sequential execution that runs the
\* writes in the order of history, and each load after the mutations that
\* were there when it read.
PlainResult(p) ==
    IF call[p].op = "load" THEN PlainLoad(result[p].at, call[p].id)
    ELSE IF call[p].op = "save" THEN [Outcome("Ok") EXCEPT !.id = call[p].session_id]
         ELSE Outcome("Ok")

\* C33: the concurrent calls of load, save and delete return what they
\* return in a sequential execution on a plain map: the map is the plain
\* map after the writes in the order they were made, every call that has
\* returned holds the result of that execution, and each call takes its
\* place in it at one step between its call and its return: a write when
\* it writes under the lock, a load when it reads under the lock.
Linearizable ==
    /\ [](\A id \in MemoryIds : Stored(id) = PlainLoad(Len(history), id))
    /\ [](\A p \in Tasks :
             (task[p] = "done" /\ call[p].op \in {"load", "save", "delete"})
                 => /\ [result[p] EXCEPT !.at = 0] = PlainResult(p)
                    /\ result[p].at <= Len(history))
    /\ [][/\ history' # history
                => \E p \in Tasks :
                      /\ WriteStep(p)
                      /\ history' = Append(history,
                                           Mutation(p, HashMapHas(sessions, call[p].session_id)))
          /\ \A p \in Tasks :
                (task[p] = "load_read" /\ task'[p] = "done")
                    => result'[p].at = Len(history)]_vars

\* A load that overlapped a save on its id and read before the save wrote.
LinearizableWitness ==
    \E p, q \in Tasks :
        /\ HasReturned(p, "load")
        /\ HasReturned(q, "save")
        /\ call[p].id = call[q].session_id
        /\ call[q].data.modified
        /\ ~result[p].found
        /\ result[p].at = 0
        /\ Len(history) = 1
        /\ Stored(call[p].id).found

\* The call of p has been made and has not returned.
InCall(p) == task[p] \notin {"idle", "done"}

\* The call of p can take its next step: it holds the lock, or the lock
\* can be granted to it.
CanProceed(p) ==
    \/ task[p] \in {"load_read", "save_write", "delete_write"}
    \/ task[p] = "load" /\ CanRead(rwlock)
    \/ task[p] \in {"save", "delete"} /\ CanWrite(rwlock)

\* C34: every call of load, save or delete that was made returns, and in
\* no state are all the calls in progress blocked: one of them can take
\* the lock or return.
EveryCallReturns ==
    /\ \A p \in Tasks : InCall(p) ~> (task[p] = "done")
    /\ []((\E p \in Tasks : InCall(p)) => (\E p \in Tasks : InCall(p) /\ CanProceed(p)))

\* A save waits for the lock that a load holds.
EveryCallReturnsWitness ==
    \E p, q \in Tasks :
        /\ task[p] = "save"
        /\ ~CanProceed(p)
        /\ task[q] = "load_read"

\* C35: the repository never holds two posts with one slug, and of the
\* calls of create with one slug at most one has returned Ok.
SlugUnique ==
    /\ \A e1, e2 \in posts : e1.slug = e2.slug => e1 = e2
    /\ \A p, q \in Tasks :
          (/\ p # q
           /\ create[p].result.kind = "Ok"
           /\ create[q].result.kind = "Ok") => create[p].slug # create[q].slug

\* Two posts with one slug in the repository, made by two calls of create
\* that both returned Ok.
SlugTwice ==
    \E p, q \in Tasks :
        /\ p # q
        /\ create[p].result.kind = "Ok"
        /\ create[q].result.kind = "Ok"
        /\ create[p].slug = create[q].slug
        /\ create[p].entry \in posts
        /\ create[q].entry \in posts
        /\ create[p].entry.id # create[q].entry.id

\* A create that found its slug taken.
SlugConflict ==
    \E p, q \in Tasks :
        /\ create[p].result.kind = "Conflict"
        /\ create[q].result.kind = "Ok"
        /\ create[q].cmd.slug = <<65>>
        /\ create[q].slug = <<97>>

=============================================================================
